---- MODULE Spec2Model ----
(***************************************************************************)
(* A state-machine model of the NLQ front end: the zustand store           *)
(* (store/nlqStore), the chat submission path (ChatInterface.handleSubmit),*)
(* the stand-alone query page (SimpleNLQInterface.handleSubmit), the       *)
(* axios adapter (services/api), the result panels (QueryResult and the    *)
(* table/chart of SimpleNLQInterface), the search box of QuerySuggestions  *)
(* and the quick queries of the dashboard.                                 *)
(*                                                                         *)
(* JavaScript values that can be null/undefined are tagged records, so     *)
(* that a null, a string and an object compare without a type error.       *)
(* Texts are sequences of one-character strings so that trim() is computed.*)
(***************************************************************************)
EXTENDS Integers, Sequences, FiniteSets, TLC

VARIABLES
    store,        \* the zustand state object (nlqStore, all data fields)
    storage,      \* localStorage record 'nlq-store' written by persist
    inputValue,   \* ChatInterface local state: the textarea text
    simple,       \* SimpleNLQInterface local state {query,isProcessing,result,error}
    mounted,      \* which query component is mounted: "chat" or "simple"
    inflight,     \* unresolved nlqAPI.processQuery promises
    nextReq,      \* number of outbound POST /nlq/query calls issued so far
    now,          \* Date.now(), in ms relative to page load
    apiCalls,     \* number of direct store-action calls made so far
    download,     \* the document last saved by exportHistory (null before)
    panel,        \* the result panel on screen (null when none): component, result,
                  \* viewMode and what it renders
    suggest,      \* QuerySuggestions local state, its timers and its pending
                  \* nlqAPI.getSuggestions promises
    flagForced,   \* whether one of them was setProcessing or reset (observation only)
    lastOp        \* the event handled by the last step (observation only)

vars == <<store, storage, inputValue, simple, mounted, inflight, nextReq, now, apiCalls,
          download, panel, suggest, flagForced, lastOp>>

-----------------------------------------------------------------------------
(* Bounds of the exploration *)

MaxRequests == 2      \* outbound /nlq/query calls per behaviour
MaxClock == 1         \* clock ticks per behaviour
MaxStoreCalls == 1    \* direct store-API calls (outside the components) per behaviour
MaxSearches == 2      \* changes of the suggestions' search text per behaviour

(* Program constants *)

HistoryCap == 100     \* .slice(0, 100)
itemsPerPage == 50    \* useState(50)
debounceDelay == 300  \* setTimeout(loadSuggestions, 300)

-----------------------------------------------------------------------------
(* JavaScript values *)

Null == [t |-> "null"]
Undefined == [t |-> "undefined"]
Str(s) == [t |-> "string", v |-> s]

\* the template text `Request failed with status ${status}`
RequestFailedText(status) == [t |-> "string", v |-> "Request failed with status ", n |-> status]

\* obj.k, undefined when the property is absent
Get(obj, k) == IF k \in DOMAIN obj THEN obj[k] ELSE Undefined

\* truthiness of a tagged value (null, undefined and "" are falsy)
Truthy(v) == v \notin {Null, Undefined, Str("")}

\* a || b
OrElse(a, b) == IF Truthy(a) THEN a ELSE b

\* { ...a, ...b }
Merge(a, b) == b @@ a

Min(a, b) == IF a < b THEN a ELSE b

\* Array.prototype.slice(from, to) with 0 <= from <= to
Slice(arr, from, to) == SubSeq(arr, from + 1, Min(to, Len(arr)))

\* String.prototype.trim on a sequence of characters
RECURSIVE TrimStart(_)
TrimStart(s) == IF s # <<>> /\ Head(s) = " " THEN TrimStart(Tail(s)) ELSE s

RECURSIVE TrimEnd(_)
TrimEnd(s) ==
    IF s # <<>> /\ s[Len(s)] = " " THEN TrimEnd(SubSeq(s, 1, Len(s) - 1)) ELSE s

Trim(s) == TrimEnd(TrimStart(s))

\* new Date(ms).toISOString(): the text of the instant
ToISOString(ms) == [iso |-> ms]

-----------------------------------------------------------------------------
(* The store: initial state, set(), persist *)

DefaultSettings ==
    [autoExecute |-> TRUE, showExplanation |-> TRUE, maxResults |-> 1000,
     enableSuggestions |-> TRUE, enableCharts |-> TRUE, chartType |-> "table"]

InitialState ==
    [queryHistory |-> <<>>, currentQuery |-> <<>>, isProcessing |-> FALSE,
     currentLanguage |-> "en", currentResult |-> Null, queryError |-> Null,
     theme |-> "light", fontSize |-> "medium", currentView |-> "dashboard",
     settings |-> DefaultSettings, schema |-> Null, schemaLoading |-> FALSE,
     serviceHealth |-> Null]

\* zustand set(partial): shallow merge into the state
Set(s, partial) == Merge(s, partial)

\* persist without the partialize option: the whole state is written
Partialize_WholeState(s) == s

\* persist's partialize: the fields written to localStorage
Partialize(s) ==
    [queryHistory |-> s.queryHistory, currentLanguage |-> s.currentLanguage,
     theme |-> s.theme, fontSize |-> s.fontSize, settings |-> s.settings]

\* persist's rehydration: the stored fields over the initial state
Rehydrate(stored) == Merge(InitialState, stored)

-----------------------------------------------------------------------------
(* Store actions, as functions from state to state *)

setCurrentQuery(s, query) == Set(s, [currentQuery |-> query])

\* a setter that also wipes the error slot when processing starts
setProcessing_ClearsError(s, isProcessing) ==
    IF isProcessing
    THEN Set(s, [isProcessing |-> isProcessing, queryError |-> Null])
    ELSE Set(s, [isProcessing |-> isProcessing])

setProcessing(s, isProcessing) == Set(s, [isProcessing |-> isProcessing])

\* keeps the last HistoryCap elements, as .slice(-100) would
addToHistory_SliceTail(s, queryData, t) ==
    LET newEntry == Merge([id |-> t, timestamp |-> ToISOString(t)], queryData)
        all == <<newEntry>> \o s.queryHistory
    IN  Set(s, [queryHistory |->
                  SubSeq(all, IF Len(all) > HistoryCap THEN Len(all) - HistoryCap + 1 ELSE 1,
                         Len(all))])

addToHistory(s, queryData, t) ==
    LET newEntry == Merge([id |-> t, timestamp |-> ToISOString(t)], queryData)
    IN  Set(s, [queryHistory |-> Slice(<<newEntry>> \o s.queryHistory, 0, HistoryCap)])

clearHistory(s) == Set(s, [queryHistory |-> <<>>])

\* a removal of the newest entry with the id only
removeFromHistory_FirstOnly(s, id) ==
    LET first == CHOOSE i \in DOMAIN s.queryHistory :
                     /\ s.queryHistory[i].id = id
                     /\ \A j \in 1..(i - 1) : s.queryHistory[j].id # id
    IN  IF \E i \in DOMAIN s.queryHistory : s.queryHistory[i].id = id
        THEN Set(s, [queryHistory |-> SubSeq(s.queryHistory, 1, first - 1)
                                        \o SubSeq(s.queryHistory, first + 1,
                                                  Len(s.queryHistory))])
        ELSE s

removeFromHistory(s, id) ==
    LET keep(entry) == entry.id # id
    IN  Set(s, [queryHistory |-> SelectSeq(s.queryHistory, keep)])

\* the setters without the clearing of the other slot
setCurrentResult_KeepsError(s, result) == Set(s, [currentResult |-> result])

setQueryError_KeepsResult(s, error) == Set(s, [queryError |-> error])

setCurrentResult(s, result) == Set(s, [currentResult |-> result, queryError |-> Null])

setQueryError(s, error) == Set(s, [queryError |-> error, currentResult |-> Null])

\* a clearResult that leaves the error
clearResult_KeepsError(s) == Set(s, [currentResult |-> Null])

clearResult(s) == Set(s, [currentResult |-> Null, queryError |-> Null])

setLanguage(s, language) == Set(s, [currentLanguage |-> language])

setTheme(s, theme) == Set(s, [theme |-> theme])

setFontSize(s, fontSize) == Set(s, [fontSize |-> fontSize])

setSchema(s, schema) == Set(s, [schema |-> schema])

setServiceHealth(s, health) == Set(s, [serviceHealth |-> health])

reset(s) == Set(s, InitialState)

\* an update that replaces the settings record by the given fields
updateSettings_Replaces(s, newSettings) == Set(s, [settings |-> newSettings])

updateSettings(s, newSettings) == Set(s, [settings |-> Merge(s.settings, newSettings)])

resetSettings(s) == Set(s, [settings |-> DefaultSettings])

\* the properties of a history entry that hold a JavaScript value which may be
\* undefined (the others hold numbers and texts)
ValueKeys == {"result", "error"}

\* what JSON.stringify writes for an object: the properties whose value is
\* undefined are left out, the others are written as they are
ToJSON(obj) ==
    [k \in {j \in DOMAIN obj : ~(j \in ValueKeys /\ obj[j] = Undefined)} |-> obj[k]]

\* JSON.stringify(array, null, 2): the text of a JSON array, given by the JSON
\* value it denotes
JSONStringify(arr) ==
    [parse |-> "ok", json |-> [isArray |-> TRUE, items |-> [i \in DOMAIN arr |-> ToJSON(arr[i])]]]

\* exportHistory: the content of the file offered for download
exportHistory(s) == JSONStringify(s.queryHistory)

\* an import that sets the history to the empty list when the shape is wrong
importHistory_EmptiesOnBadShape(s, file) ==
    IF file.parse = "fail"
    THEN [state |-> s, settled |-> "rejected", message |-> "Failed to parse file"]
    ELSE IF file.json.isArray
         THEN [state |-> Set(s, [queryHistory |-> file.json.items]),
               settled |-> "resolved", message |-> ""]
         ELSE [state |-> Set(s, [queryHistory |-> <<>>]),
               settled |-> "rejected", message |-> "Invalid file format"]

\* an import that puts the file's entries in front of the existing ones
importHistory_Merges(s, file) ==
    IF file.parse = "fail"
    THEN [state |-> s, settled |-> "rejected", message |-> "Failed to parse file"]
    ELSE IF file.json.isArray
         THEN [state |-> Set(s, [queryHistory |-> file.json.items \o s.queryHistory]),
               settled |-> "resolved", message |-> ""]
         ELSE [state |-> s, settled |-> "rejected", message |-> "Invalid file format"]

\* reader.onload of importHistory: the new state and how the promise settles
importHistory(s, file) ==
    IF file.parse = "fail"
    THEN [state |-> s, settled |-> "rejected", message |-> "Failed to parse file"]
    ELSE IF file.json.isArray
         THEN [state |-> Set(s, [queryHistory |-> file.json.items]),
               settled |-> "resolved", message |-> ""]
         ELSE [state |-> s, settled |-> "rejected", message |-> "Invalid file format"]

-----------------------------------------------------------------------------
(* The HTTP adapter (services/api) *)

\* an interceptor that prefers the server's message for every status
responseInterceptor_ServerMessageFirst(error) ==
    IF error.kind = "status"
    THEN CASE error.status = 400 -> OrElse(Get(error.data, "message"), Str("Bad Request"))
           [] error.status = 401 ->
                  OrElse(Get(error.data, "message"), Str("Unauthorized access"))
           [] error.status = 403 -> OrElse(Get(error.data, "message"), Str("Forbidden access"))
           [] error.status = 404 ->
                  OrElse(Get(error.data, "message"), Str("Resource not found"))
           [] error.status = 429 ->
                  OrElse(Get(error.data, "message"),
                         Str("Rate limit exceeded. Please try again later."))
           [] error.status = 500 ->
                  OrElse(Get(error.data, "message"), Str("Internal server error"))
           [] OTHER -> OrElse(Get(error.data, "message"),
                              RequestFailedText(error.status))
    ELSE IF error.kind = "noResponse"
         THEN Str("Network error. Please check your connection.")
         ELSE OrElse(Get(error, "message"), Str("An unexpected error occurred"))

\* The message of the Error thrown by the response interceptor's error branch.
\* error.kind: "status" (error.response set), "noResponse" (only error.request
\* set: connection failure or the 30 s timeout), "setup" (neither).
responseInterceptor(error) ==
    IF error.kind = "status"
    THEN CASE error.status = 400 -> OrElse(Get(error.data, "message"), Str("Bad Request"))
           [] error.status = 401 -> Str("Unauthorized access")
           [] error.status = 403 -> Str("Forbidden access")
           [] error.status = 404 -> Str("Resource not found")
           [] error.status = 429 -> Str("Rate limit exceeded. Please try again later.")
           [] error.status = 500 -> Str("Internal server error")
           [] OTHER -> OrElse(Get(error.data, "message"),
                              RequestFailedText(error.status))
    ELSE IF error.kind = "noResponse"
         THEN Str("Network error. Please check your connection.")
         ELSE OrElse(Get(error, "message"), Str("An unexpected error occurred"))

\* nlqAPI.processQuery once the POST settles: response.data, or the thrown Error
processQuery(outcome) ==
    IF outcome.kind = "ok"
    THEN [threw |-> FALSE, data |-> outcome.data]
    ELSE [threw |-> TRUE, error |-> [message |-> responseInterceptor(outcome)]]

\* a transport failure is sent once more under the next request id
resend_OnNetworkError(r, outcome) ==
    IF outcome.kind = "noResponse" /\ nextReq < MaxRequests
    THEN {[r EXCEPT !.rid = nextReq + 1]}
    ELSE {}

\* the calls issued again when call r settles with outcome: the interceptor
\* rejects with the mapped Error and processQuery returns or rethrows; neither
\* posts a second time
resend(r, outcome) == {}

\* errorHandler.getErrorMessage
getErrorMessage(error) ==
    IF Truthy(Get(error, "message")) THEN error.message
    ELSE IF Truthy(Get(Get(Get(error, "response"), "data"), "message"))
         THEN error.response.data.message
         ELSE IF Truthy(Get(Get(Get(error, "response"), "data"), "error"))
              THEN error.response.data.error
              ELSE Str("An unexpected error occurred")

-----------------------------------------------------------------------------
(* The environment: what the user types and what the backend answers *)

\* texts typed into the chat box
Inputs == {<<" ", "a">>, <<"b">>}

\* the queries offered as suggestions
Suggestions == {<<"b">>}

\* texts typed into the stand-alone page's box
SimpleInputs == {<<" ">>, <<"a", " ">>}

\* the body of a 200 answer to query q that reports success
Answer(q) ==
    [success |-> TRUE,
     result |-> [data |-> << [total |-> [t |-> "number", v |-> 12]] >>,
                 columns |-> << [name |-> "total", type |-> "number"] >>,
                 rowCount |-> 1],
     generatedSQL |-> [sql |-> q]]

\* the ways the POST /nlq/query for q can settle
Outcomes(q) ==
    { [kind |-> "ok", data |-> Answer(q)],
      [kind |-> "ok", data |-> [success |-> FALSE, error |-> Str("no such table")]],
      [kind |-> "ok", data |-> [success |-> FALSE]],
      [kind |-> "status", status |-> 500, data |-> [message |-> Str("boom")]],
      [kind |-> "status", status |-> 503, data |-> [message |-> Str("unavailable")]],
      [kind |-> "noResponse"] }

\* the statuses with a case of their own in the interceptor, and two without
FixedStatuses == {400, 401, 403, 404, 429, 500}
Statuses == FixedStatuses \cup {418, 503}

\* the bodies of an error response: with a message, with an empty message,
\* without one
ErrorBodies == {[message |-> Str("from server")], [message |-> Str("")], [code |-> 1]}

\* every way the POST can fail before an answer is read: a response with an
\* error status, no response (connection failure or the 30 s timeout), or an
\* error raised while the request was set up, with or without a message
FailureOutcomes ==
    {[kind |-> "status", status |-> st, data |-> body] : st \in Statuses, body \in ErrorBodies}
      \cup {[kind |-> "noResponse"]}
      \cup {[kind |-> "setup", message |-> Str("bad config")], [kind |-> "setup"]}

\* success, or the connection failing
CoarseOutcomes(q) == {[kind |-> "ok", data |-> Answer(q)], [kind |-> "noResponse"]}

-----------------------------------------------------------------------------
(* ChatInterface.handleSubmit *)

\* the early return without the flag
submitRejected_NoFlag(input, isProcessing) == Trim(input) = <<>>

\* line 54: the early return
submitRejected(input, isProcessing) == Trim(input) = <<>> \/ isProcessing

\* the synchronous part without the user entry
handleSubmitBegin_NoUserEntry(s, query, t) ==
    clearResult(setProcessing(setCurrentQuery(s, query), TRUE))

\* lines 56-69: the store after the synchronous part of an accepted submission
handleSubmitBegin(s, query, t) ==
    LET s1 == setCurrentQuery(s, query)
        s2 == setProcessing(s1, TRUE)
        s3 == clearResult(s2)
    IN  addToHistory(s3, [type |-> "user", query |-> query,
                          language |-> s.currentLanguage,
                          timestamp |-> ToISOString(t)], t)

\* lines 77-88: the call resolved with result.success truthy
handleSubmitSuccess(s, query, result, t) ==
    addToHistory(setCurrentResult(s, result),
                 [type |-> "bot", query |-> query, result |-> result,
                  timestamp |-> ToISOString(t)], t)

\* the catch block without the history entry
handleSubmitCatch_NoEntry(s, query, error, t) == setQueryError(s, getErrorMessage(error))

\* lines 92-104: the catch block
handleSubmitCatch(s, query, error, t) ==
    LET errorMessage == getErrorMessage(error)
    IN  addToHistory(setQueryError(s, errorMessage),
                     [type |-> "error", query |-> query, error |-> errorMessage,
                      timestamp |-> ToISOString(t)], t)

\* the continuation with a request-generation guard: a response to a query
\* that is no longer the current one is dropped
handleSubmitSettle_Guarded(s, query, outcome, t) ==
    IF s.currentQuery # query THEN s
    ELSE LET call == processQuery(outcome)
         IN  setProcessing(
                 IF ~call.threw /\ call.data.success
                 THEN handleSubmitSuccess(s, query, call.data, t)
                 ELSE handleSubmitCatch(s, query,
                          IF call.threw THEN call.error
                          ELSE [message |-> OrElse(Get(call.data, "error"),
                                                   Str("Query processing failed"))], t),
                 FALSE)

\* the continuation with the flag cleared on the success path only (no finally)
handleSubmitSettle_NoFinally(s, query, outcome, t) ==
    LET call == processQuery(outcome)
    IN  IF call.threw
        THEN handleSubmitCatch(s, query, call.error, t)
        ELSE IF call.data.success
             THEN setProcessing(handleSubmitSuccess(s, query, call.data, t), FALSE)
             ELSE handleSubmitCatch(s, query,
                      [message |-> OrElse(Get(call.data, "error"),
                                          Str("Query processing failed"))], t)

\* lines 72-107: the continuation after the await, for one way the call settled
handleSubmitSettle(s, query, outcome, t) ==
    LET call == processQuery(outcome)
        body == IF call.threw
                THEN handleSubmitCatch(s, query, call.error, t)
                ELSE IF call.data.success
                     THEN handleSubmitSuccess(s, query, call.data, t)
                     ELSE handleSubmitCatch(s, query,
                              [message |-> OrElse(Get(call.data, "error"),
                                                  Str("Query processing failed"))], t)
    IN  setProcessing(body, FALSE)

\* every store change goes through set(), which persist writes through
Commit(s) == store' = s /\ storage' = Partialize(s)

\* what a step did: the handler, the request it concerns, whether the event was
\* accepted, and its argument
Op(name, rid, accepted, arg) == [op |-> name, rid |-> rid, accepted |-> accepted, arg |-> arg]

\* onChange of the textarea, which is disabled while isProcessing (line 316)
SetInputValue(text) ==
    /\ mounted = "chat"
    /\ ~store.isProcessing
    /\ inputValue' = text
    /\ lastOp' = Op("input", 0, TRUE, Null)
    /\ UNCHANGED <<store, storage, simple, mounted, inflight, nextReq, now, apiCalls, flagForced, download, panel, suggest>>

\* a click on a suggestion; the lists are rendered while the history is empty
\* (line 241) or the input is empty and suggestions are enabled (line 335)
HandleSuggestionClick(suggestion) ==
    /\ mounted = "chat"
    /\ \/ store.queryHistory = <<>>
       \/ store.settings.enableSuggestions /\ Len(inputValue) = 0
    /\ inputValue' = suggestion
    /\ lastOp' = Op("suggestion", 0, TRUE, Null)
    /\ UNCHANGED <<store, storage, simple, mounted, inflight, nextReq, now, apiCalls, flagForced, download, panel, suggest>>

\* a submit event reaches handleSubmit
HandleSubmit ==
    /\ mounted = "chat"
    /\ IF submitRejected(inputValue, store.isProcessing)
       THEN /\ lastOp' = Op("submit", 0, FALSE, Null)
            /\ UNCHANGED <<store, storage, inputValue, inflight, nextReq>>
       ELSE /\ nextReq < MaxRequests
            /\ Commit(handleSubmitBegin(store, Trim(inputValue), now))
            /\ inputValue' = <<>>
            /\ inflight' = inflight \cup
                   {[rid |-> nextReq + 1, origin |-> "chat", query |-> Trim(inputValue)]}
            /\ nextReq' = nextReq + 1
            /\ lastOp' = Op("submit", nextReq + 1, TRUE, Null)
    /\ UNCHANGED <<simple, mounted, now, apiCalls, flagForced, download, panel, suggest>>

\* the awaited processQuery call of request r settles
HandleSubmitResume(r, outcome) ==
    /\ r \in inflight /\ r.origin = "chat"
    /\ Commit(handleSubmitSettle(store, r.query, outcome, now))
    /\ inflight' = (inflight \ {r}) \cup resend(r, outcome)
    /\ nextReq' = nextReq + Cardinality(resend(r, outcome))
    /\ lastOp' = Op("resume", r.rid, TRUE, outcome)
    /\ UNCHANGED <<inputValue, simple, mounted, now, apiCalls, flagForced, download, panel, suggest>>

-----------------------------------------------------------------------------
(* SimpleNLQInterface.handleSubmit (component-local state) *)

SimpleInit == [query |-> <<>>, isProcessing |-> FALSE, result |-> Null, error |-> Null]

\* line 476: the early return
simpleSubmitRejected(query, isProcessing) == Trim(query) = <<>> \/ isProcessing

\* lines 478-481
simpleSubmitBegin(c) == Merge(c, [isProcessing |-> TRUE, error |-> Null, result |-> Null])

\* lines 484-503: the continuation after the await
simpleSubmitSettle(c, outcome) ==
    LET call == processQuery(outcome)
        err == IF call.threw THEN call.error
               ELSE [message |-> OrElse(Get(call.data, "error"),
                                        Str("Query processing failed"))]
        body == IF ~call.threw /\ call.data.success
                THEN Merge(c, [result |-> call.data])
                ELSE Merge(c, [error |-> OrElse(Get(err, "message"),
                                                Str("An unexpected error occurred"))])
    IN  Merge(body, [isProcessing |-> FALSE])

\* onChange of the query box, which is disabled while isProcessing (line 776)
SimpleSetQuery(text) ==
    /\ mounted = "simple"
    /\ ~simple.isProcessing
    /\ simple' = Merge(simple, [query |-> text])
    /\ lastOp' = Op("simpleInput", 0, TRUE, Null)
    /\ UNCHANGED <<store, storage, inputValue, mounted, inflight, nextReq, now, apiCalls, flagForced, download, panel, suggest>>

SimpleHandleSubmit ==
    /\ mounted = "simple"
    /\ IF simpleSubmitRejected(simple.query, simple.isProcessing)
       THEN /\ lastOp' = Op("simpleSubmit", 0, FALSE, Null)
            /\ UNCHANGED <<simple, inflight, nextReq>>
       ELSE /\ nextReq < MaxRequests
            /\ simple' = simpleSubmitBegin(simple)
            /\ inflight' = inflight \cup
                   {[rid |-> nextReq + 1, origin |-> "simple", query |-> Trim(simple.query)]}
            /\ nextReq' = nextReq + 1
            /\ lastOp' = Op("simpleSubmit", nextReq + 1, TRUE, Null)
    /\ UNCHANGED <<store, storage, inputValue, mounted, now, apiCalls, flagForced, download, panel, suggest>>

SimpleResume(r, outcome) ==
    /\ r \in inflight /\ r.origin = "simple"
    /\ simple' = simpleSubmitSettle(simple, outcome)
    /\ inflight' = (inflight \ {r}) \cup resend(r, outcome)
    /\ nextReq' = nextReq + Cardinality(resend(r, outcome))
    /\ lastOp' = Op("simpleResume", r.rid, TRUE, outcome)
    /\ UNCHANGED <<store, storage, inputValue, mounted, now, apiCalls, flagForced, download, panel, suggest>>

\* a call of an instance that has been unmounted settles: its setState calls
\* update nothing
OrphanResume(r) ==
    /\ r \in inflight /\ r.origin = "unmounted"
    /\ inflight' = inflight \ {r}
    /\ lastOp' = Op("orphanResume", r.rid, TRUE, Null)
    /\ UNCHANGED <<store, storage, inputValue, simple, mounted, nextReq, now, apiCalls, flagForced, download, panel, suggest>>

-----------------------------------------------------------------------------
(* QuerySuggestions: what it lists and its timers *)

\* lines 15-74 (queries, icons and descriptions left out)
defaultSuggestions ==
    << [id |-> [text |-> "top-customers"], category |-> "Customer Analytics"],
       [id |-> [text |-> "monthly-revenue"], category |-> "Sales Analytics"],
       [id |-> [text |-> "top-products"], category |-> "Product Performance"],
       [id |-> [text |-> "conversion-rate"], category |-> "Marketing Analytics"],
       [id |-> [text |-> "inventory-alert"], category |-> "Inventory Management"],
       [id |-> [text |-> "customer-retention"], category |-> "Customer Insights"],
       [id |-> [text |-> "geographic-sales"], category |-> "Geographic Analysis"],
       [id |-> [text |-> "seasonal-trends"], category |-> "Trend Analysis"] >>

\* lines 88-94: result.suggestions as the list shows them
apiSuggestions(suggestions) ==
    [index \in DOMAIN suggestions |->
        [id |-> [text |-> "api-", index |-> index - 1], query |-> suggestions[index],
         category |-> "Suggested"]]

\* a timer that clearTimeout does not stop
clearTimeout_Keeps(timers, timeoutId) == timers

\* clearTimeout(timeoutId)
clearTimeout(timers, timeoutId) == {timer \in timers : timer.id # timeoutId}

\* setTimeout(loadSuggestions, 300) with the searchQuery of this render
setTimeout(timers, timeoutId, searchQuery) ==
    timers \cup {[id |-> timeoutId, text |-> searchQuery, remaining |-> debounceDelay]}

\* the component after its first render and effect: nothing listed yet, and
\* the first load scheduled
SuggestInit ==
    [searchQuery |-> <<>>, suggestions |-> <<>>, loading |-> FALSE,
     timers |-> setTimeout({}, 0, <<>>), timeoutId |-> 0, scheduled |-> 1,
     requests |-> {}, issued |-> 0, changes |-> 0]

-----------------------------------------------------------------------------
(* Page-level events *)

\* the calls of the unmounted SimpleNLQInterface instance stay pending
Orphaned(pending) ==
    {IF r.origin = "simple" THEN [r EXCEPT !.origin = "unmounted"] ELSE r : r \in pending}

\* the router swaps the mounted component: local state is discarded
Navigate(to) ==
    /\ to # mounted
    /\ mounted' = to
    /\ inputValue' = <<>>
    /\ simple' = SimpleInit
    /\ inflight' = Orphaned(inflight)
    /\ suggest' = SuggestInit
    /\ lastOp' = Op("navigate", 0, TRUE, Null)
    /\ UNCHANGED <<store, storage, nextReq, now, apiCalls, flagForced, download, panel>>

\* the page is reloaded: pending calls die with the page, the store is rebuilt
\* from its initial state and the persisted record
Reload ==
    /\ Commit(Rehydrate(storage))
    /\ inputValue' = <<>>
    /\ simple' = SimpleInit
    /\ inflight' = {}
    /\ suggest' = SuggestInit
    /\ lastOp' = Op("reload", 0, TRUE, [pending |-> inflight # {}])
    /\ UNCHANGED <<mounted, nextReq, now, apiCalls, flagForced, download, panel>>

\* the answers of GET /nlq/health that App's initializeApp can get
HealthOutcomes == {[healthy |-> TRUE], [healthy |-> FALSE]}

\* App.initializeApp: the health call made at page load settles
HealthSettles(health) ==
    /\ store.serviceHealth = Null
    /\ Commit(setServiceHealth(store, health))
    /\ lastOp' = Op("setServiceHealth", 0, TRUE, Null)
    /\ UNCHANGED <<inputValue, simple, mounted, inflight, nextReq, now, apiCalls, download,
                   flagForced, panel, suggest>>

\* App.initializeApp: the schema call made when the service is healthy settles
\* with success
SchemaSettles ==
    /\ store.serviceHealth # Null /\ store.serviceHealth.healthy
    /\ store.schema = Null
    /\ Commit(setSchema(store, [tables |-> <<"orders">>]))
    /\ lastOp' = Op("setSchema", 0, TRUE, Null)
    /\ UNCHANGED <<inputValue, simple, mounted, inflight, nextReq, now, apiCalls, download,
                   flagForced, panel, suggest>>

\* wall-clock time passes
Tick ==
    /\ now < MaxClock
    /\ now' = now + 1
    /\ lastOp' = Op("tick", 0, TRUE, Null)
    /\ UNCHANGED <<store, storage, inputValue, simple, mounted, inflight, nextReq, apiCalls, flagForced, download, panel, suggest>>

-----------------------------------------------------------------------------
(* Sidebar: history import and clearing *)

\* n entries saved by an earlier session, newest first
Stock(n) ==
    [i \in 1..n |-> [id |-> 0 - i, timestamp |-> ToISOString(0 - i), type |-> "user",
                     query |-> <<"a">>, language |-> "en"]]

\* what FileReader and JSON.parse make of the files the user can pick
BadFiles ==
    { [parse |-> "fail"],
      [parse |-> "ok", json |-> [isArray |-> FALSE]] }

ArrayFile(n) == [parse |-> "ok", json |-> [isArray |-> TRUE, items |-> Stock(n)]]

ImportFiles ==
    BadFiles \cup {ArrayFile(n) : n \in {1, HistoryCap - 1, HistoryCap, HistoryCap + 1}}


\* handleImportHistory, at reader.onload
ImportHistory(file) ==
    LET done == importHistory(store, file)
    IN  /\ IF done.state # store
           THEN Commit(done.state)
           ELSE UNCHANGED <<store, storage>>
        /\ lastOp' = Op("importHistory", 0, done.settled = "resolved",
                        [file |-> file, message |-> Str(done.message),
                         replaced |-> store.queryHistory])
        /\ UNCHANGED <<inputValue, simple, mounted, inflight, nextReq, now, apiCalls, flagForced, download, panel, suggest>>

\* handleExportHistory: the document is saved; `of` remembers the history it
\* was made from (observation only)
ExportHistory ==
    /\ download' = [document |-> exportHistory(store), of |-> store.queryHistory]
    /\ lastOp' = Op("exportHistory", 0, TRUE, Null)
    /\ UNCHANGED <<store, storage, inputValue, simple, mounted, inflight, nextReq, now,
                   apiCalls, panel, flagForced, suggest>>

\* the files at hand for an import: two short arrays, the unusable ones, and
\* the document exported last
RoundTripFiles ==
    BadFiles \cup {ArrayFile(1), ArrayFile(2)}
        \cup (IF download = Null THEN {} ELSE {download.document})

\* handleClearHistory, confirmed
ClearHistory ==
    /\ Commit(clearHistory(store))
    /\ lastOp' = Op("clearHistory", 0, TRUE, Null)
    /\ UNCHANGED <<inputValue, simple, mounted, inflight, nextReq, now, apiCalls, flagForced, download, panel, suggest>>

-----------------------------------------------------------------------------
(* Sidebar: the settings panel *)

NaN == [t |-> "NaN"]
Num(n) == [t |-> "number", v |-> n]

Digits == <<"0", "1", "2", "3", "4", "5", "6", "7", "8", "9">>
IsDigit(c) == \E i \in DOMAIN Digits : Digits[i] = c
DigitValue(c) == (CHOOSE i \in DOMAIN Digits : Digits[i] = c) - 1

\* the value of the longest prefix of decimal digits of s, after acc
RECURSIVE ParseDigits(_, _)
ParseDigits(s, acc) ==
    IF s = <<>> \/ ~IsDigit(Head(s)) THEN acc
    ELSE ParseDigits(Tail(s), acc * 10 + DigitValue(Head(s)))

\* parseInt(text): leading blanks, an optional sign, then decimal digits up to
\* the first other character; NaN when there is no digit
parseInt(text) ==
    LET t == TrimStart(text)
        signed == t # <<>> /\ Head(t) \in {"-", "+"}
        body == IF signed THEN Tail(t) ELSE t
    IN  IF body = <<>> \/ ~IsDigit(Head(body)) THEN NaN
        ELSE IF signed /\ Head(t) = "-" THEN Num(0 - ParseDigits(body, 0))
             ELSE Num(ParseDigits(body, 0))

\* line 343: parseInt(e.target.value) || 1000  (NaN and 0 are falsy)
maxResultsOf(text) ==
    LET n == parseInt(text)
    IN  IF n = NaN \/ n.v = 0 THEN DefaultSettings.maxResults ELSE n.v

\* the values the number input can report: the empty text (also reported for
\* text that is not a number) and valid number texts
MaxResultsTexts ==
    { <<>>, <<"0">>, <<"7">>, <<"1", "2", ".", "5">>, <<"-", "5">>,
      <<"1", "0", "0", "0", "0">>, <<"1", "0", "0", "0", "1">> }

\* what the checkboxes and the chart-type select pass to updateSettings
ControlEdits ==
    {[autoExecute |-> b] : b \in BOOLEAN} \cup {[showExplanation |-> b] : b \in BOOLEAN}
      \cup {[enableSuggestions |-> b] : b \in BOOLEAN}
      \cup {[enableCharts |-> b] : b \in BOOLEAN}
      \cup {[chartType |-> c] : c \in {"table", "bar", "line", "pie"}}

\* onChange of a checkbox or of the chart-type select
UpdateSettings(partial) ==
    /\ Commit(updateSettings(store, partial))
    /\ lastOp' = Op("updateSettings", 0, TRUE, partial)
    /\ UNCHANGED <<inputValue, simple, mounted, inflight, nextReq, now, apiCalls, download,
                   flagForced, panel, suggest>>

\* onChange of the Max Results input
SetMaxResults(text) ==
    /\ Commit(updateSettings(store, [maxResults |-> maxResultsOf(text)]))
    /\ lastOp' = Op("updateSettings", 0, TRUE, [maxResults |-> maxResultsOf(text)])
    /\ UNCHANGED <<inputValue, simple, mounted, inflight, nextReq, now, apiCalls, download,
                   flagForced, panel, suggest>>

-----------------------------------------------------------------------------
(* Result panels: QueryResult and SimpleNLQInterface's table/chart view *)

\* cell values: a text is a sequence of characters
Text(chars) == [t |-> "string", chars |-> chars]
Bool(b) == [t |-> "boolean", v |-> b]

\* typeof value
TypeOf(value) == IF value = Null THEN "object" ELSE value.t

\* whether Number(text) is a number: blanks are trimmed, the empty text is 0,
\* otherwise an optional sign and decimal digits with at most one point
\* (exponents, hexadecimal and Infinity are not in the texts used here)
IsNumericText(chars) ==
    LET t == Trim(chars)
        body == IF t # <<>> /\ Head(t) \in {"-", "+"} THEN Tail(t) ELSE t
        isPoint(c) == c = "."
        points == SelectSeq(body, isPoint)
        digits == SelectSeq(body, IsDigit)
    IN  \/ t = <<>>
        \/ /\ Len(digits) >= 1 /\ Len(points) <= 1
           /\ Len(digits) + Len(points) = Len(body)

\* !isNaN(Number(value))
CoercesToNumber(value) ==
    CASE value = Null -> TRUE
      [] value = Undefined -> FALSE
      [] value.t = "number" -> TRUE
      [] value.t = "boolean" -> TRUE
      [] value.t = "string" -> IsNumericText(value.chars)


\* String.prototype.toLowerCase on a sequence of characters
UpperCase == <<"A", "B", "C", "D", "E", "F", "G", "H", "I", "J", "K", "L", "M", "N", "O", "P", "Q", "R", "S", "T", "U", "V", "W", "X", "Y", "Z">>
LowerCase == <<"a", "b", "c", "d", "e", "f", "g", "h", "i", "j", "k", "l", "m", "n", "o", "p", "q", "r", "s", "t", "u", "v", "w", "x", "y", "z">>

ToLowerChar(c) ==
    IF \E i \in DOMAIN UpperCase : UpperCase[i] = c
    THEN LowerCase[CHOOSE i \in DOMAIN UpperCase : UpperCase[i] = c]
    ELSE c

ToLowerCase(chars) == [i \in DOMAIN chars |-> ToLowerChar(chars[i])]

\* String.prototype.includes
Includes(chars, part) ==
    \E i \in 0..(Len(chars) - Len(part)) : SubSeq(chars, i + 1, i + Len(part)) = part

\* the characters of the column names used here
Spelling(name) ==
    CASE name = "region" -> <<"r", "e", "g", "i", "o", "n">>
      [] name = "total" -> <<"t", "o", "t", "a", "l">>
      [] name = "amount" -> <<"a", "m", "o", "u", "n", "t">>
      [] name = "flag" -> <<"f", "l", "a", "g">>
      [] name = "open" -> <<"o", "p", "e", "n">>
      [] name = "day" -> <<"d", "a", "y">>
      [] name = "rank" -> <<"r", "a", "n", "k">>
      [] name = "id" -> <<"i", "d">>
      [] name = "quantity_rate" -> <<"q", "u", "a", "n", "t", "i", "t", "y", "_", "r", "a", "t", "e">>
      [] name = "Sales" -> <<"S", "a", "l", "e", "s">>
      [] name = "total_value" -> <<"t", "o", "t", "a", "l", "_", "v", "a", "l", "u", "e">>
      [] name = "item_count" -> <<"i", "t", "e", "m", "_", "c", "o", "u", "n", "t">>
      [] name = "score" -> <<"s", "c", "o", "r", "e">>

\* name.toLowerCase().includes(word) for one of the words
NameHasOneOf(name, words) ==
    \E word \in words : Includes(ToLowerCase(Spelling(name)), word)

PercentWords == {<<"r", "a", "t", "e">>, <<"p", "e", "r", "c", "e", "n", "t", "a", "g", "e">>, <<"c", "o", "n", "v", "e", "r", "s", "i", "o", "n">>}
CurrencyWords == {<<"a", "m", "o", "u", "n", "t">>, <<"p", "r", "i", "c", "e">>, <<"r", "e", "v", "e", "n", "u", "e">>, <<"s", "a", "l", "e", "s">>}
CountWords == {<<"c", "o", "u", "n", "t">>, <<"q", "u", "a", "n", "t", "i", "t", "y">>}

\* a formatted cell: the rule applied to the value; the digits say how the two
\* decimals are made (Math.round(x * 100) / 100, toFixed(2) or toLocaleString)
Dash == [rule |-> "dash"]
AsIs(value) == [rule |-> "asIs", value |-> value]
Formatted(rule, value, digits) == [rule |-> rule, value |-> value, digits |-> digits]

\* QueryResult, line 22: data and columns are read from the top of the result;
\* an absent one is undefined, which every use below guards with ?. or ||
DataOf(result) == IF "data" \in DOMAIN result THEN result.data ELSE <<>>
ColumnsOf(result) == IF "columns" \in DOMAIN result THEN result.columns ELSE <<>>

\* QueryResult, line 23
hasData(result) == "data" \in DOMAIN result /\ Len(result.data) > 0

\* data?.[0]?.[name]
FirstRowValue(result, name) ==
    IF DataOf(result) = <<>> THEN Undefined ELSE Get(DataOf(result)[1], name)

\* QueryResult, lines 49-52
numericColumns(result) ==
    LET isNumeric(col) ==
            col.type = "number" \/ TypeOf(FirstRowValue(result, col.name)) = "number"
    IN  SelectSeq(ColumnsOf(result), isNumeric)

\* QueryResult, lines 55-58
categoricalColumns(result) ==
    LET isCategorical(col) ==
            col.type = "string" \/ TypeOf(FirstRowValue(result, col.name)) = "string"
    IN  SelectSeq(ColumnsOf(result), isCategorical)

\* QueryResult, lines 61-92
formatCellValue(value, column, result) ==
    IF value = Null \/ value = Undefined THEN Dash
    ELSE LET numeric == numericColumns(result)
             isNumeric == \E i \in DOMAIN numeric : numeric[i].name = column.name
         IN  IF isNumeric
             THEN IF ~CoercesToNumber(value) THEN AsIs(value)
                  ELSE IF NameHasOneOf(column.name, PercentWords)
                       THEN Formatted("percent", value, "round")
                  ELSE IF NameHasOneOf(column.name, CurrencyWords)
                       THEN Formatted("currency", value, "locale")
                  ELSE IF NameHasOneOf(column.name, CountWords)
                       THEN Formatted("grouped", value, "locale")
                  ELSE Formatted("twoDecimals", value, "round")
             ELSE AsIs(value)

\* Math.ceil(a / b) for a >= 0 and b > 0
Ceil(a, b) == (a + b - 1) \div b

\* QueryResult, lines 26-29
totalPages(result) == Ceil(Len(DataOf(result)), itemsPerPage)

\* a page that starts one page late
startIndex_FromPage(currentPage) == currentPage * itemsPerPage

startIndex(currentPage) == (currentPage - 1) * itemsPerPage
endIndex(currentPage) == startIndex(currentPage) + itemsPerPage
currentData(result, currentPage) ==
    Slice(DataOf(result), startIndex(currentPage), endIndex(currentPage))

\* QueryResult, lines 134-165: the rows of the current page, cell by cell
renderTable(result, currentPage) ==
    LET columns == ColumnsOf(result)
        rows == currentData(result, currentPage)
    IN  [kind |-> "table",
         rows |-> [r \in DOMAIN rows |->
                     [c \in DOMAIN columns |->
                        formatCellValue(Get(rows[r], columns[c].name), columns[c], result)]]]

\* what a render function returns: a message, or a chart with its data keys
Message(text) == [kind |-> "message", text |-> text]

\* categoricalColumns[0] || 'index'
XAxisOf(categorical) ==
    IF categorical # <<>> THEN [column |-> categorical[1]] ELSE [key |-> "index"]

\* a bar chart drawn on the index when no column is numeric
renderBarChart_NoGuard(result) ==
    [kind |-> "bar", x |-> XAxisOf(categoricalColumns(result)),
     y |-> IF numericColumns(result) = <<>> THEN "index" ELSE numericColumns(result)[1].name]

\* QueryResult, lines 167-192
renderBarChart(result) ==
    IF Len(numericColumns(result)) = 0
    THEN Message("No numeric data available for bar chart")
    ELSE [kind |-> "bar", x |-> XAxisOf(categoricalColumns(result)),
          y |-> numericColumns(result)[1].name]

\* QueryResult, lines 194-224
renderLineChart(result) ==
    IF Len(numericColumns(result)) = 0
    THEN Message("No numeric data available for line chart")
    ELSE [kind |-> "line", x |-> XAxisOf(categoricalColumns(result)),
          y |-> numericColumns(result)[1].name]

\* QueryResult, lines 226-282: without a numeric column each row counts 1
renderPieChart(result) ==
    IF Len(categoricalColumns(result)) = 0
    THEN Message("No categorical data available for pie chart")
    ELSE [kind |-> "pie", category |-> categoricalColumns(result)[1].name,
          value |-> IF numericColumns(result) # <<>>
                    THEN [column |-> numericColumns(result)[1].name]
                    ELSE [each |-> 1]]

\* QueryResult, lines 284-295 and 377-379
renderChart(result, viewMode, currentPage) ==
    IF ~hasData(result) THEN Message("No data returned")
    ELSE CASE viewMode = "bar" -> renderBarChart(result)
           [] viewMode = "line" -> renderLineChart(result)
           [] viewMode = "pie" -> renderPieChart(result)
           [] OTHER -> renderTable(result, currentPage)

\* SimpleNLQInterface, lines 555-556 and 620-621: the data and the columns are
\* taken from result.result when it has them, else from the result itself
simpleDataOf(result) ==
    IF "result" \in DOMAIN result /\ "data" \in DOMAIN result.result
    THEN result.result.data
    ELSE DataOf(result)

simpleColumnsOf(result) ==
    LET given == IF "result" \in DOMAIN result /\ "columns" \in DOMAIN result.result
                 THEN result.result.columns
                 ELSE ColumnsOf(result)
        data == simpleDataOf(result)
        keys == CHOOSE ks \in [1..Cardinality(DOMAIN data[1]) -> DOMAIN data[1]] :
                    \A k \in DOMAIN data[1] : \E i \in DOMAIN ks : ks[i] = k
    IN  IF Len(given) = 0 /\ Len(data) > 0
        THEN [i \in DOMAIN keys |-> [name |-> keys[i]]]
        ELSE given

\* SimpleNLQInterface.formatValue, lines 526-551
formatValue(value, columnName) ==
    IF value = Null \/ value = Undefined THEN Dash
    ELSE IF CoercesToNumber(value)
         THEN IF NameHasOneOf(columnName, PercentWords)
              THEN Formatted("percent", value, "fixed")
              ELSE IF NameHasOneOf(columnName, CurrencyWords \cup {<<"v", "a", "l", "u", "e">>})
                   THEN Formatted("currency", value, "locale")
              ELSE IF NameHasOneOf(columnName, CountWords)
                   THEN Formatted("grouped", value, "locale")
              ELSE Formatted("twoDecimals", value, "fixed")
         ELSE AsIs(value)

\* SimpleNLQInterface.renderTable, lines 553-616
simpleRenderTable(result) ==
    LET data == simpleDataOf(result)
        columns == simpleColumnsOf(result)
    IN  IF Len(data) = 0 THEN Message("No data available")
        ELSE [kind |-> "table",
              rows |-> [r \in DOMAIN data |->
                          [c \in DOMAIN columns |->
                             formatValue(Get(data[r], columns[c].name), columns[c].name)]]]

\* SimpleNLQInterface.renderChart, lines 644-649: the declared type is not read
simpleNumericColumns(result) ==
    LET isNumeric(col) ==
            LET sampleValue == Get(simpleDataOf(result)[1], col.name)
            IN  sampleValue # Null /\ sampleValue # Undefined /\ CoercesToNumber(sampleValue)
    IN  SelectSeq(simpleColumnsOf(result), isNumeric)

\* SimpleNLQInterface.renderChart, lines 618-756 (the columns are given)
simpleRenderChart(result) ==
    IF Len(simpleDataOf(result)) = 0 THEN Message("No data available for chart")
    ELSE IF Len(simpleNumericColumns(result)) = 0
         THEN Message("No numeric data available for chart")
         ELSE [kind |-> "bar", y |-> simpleNumericColumns(result)[1].name]

\* SimpleNLQInterface, line 927
simpleRender(result, viewMode) ==
    IF viewMode = "table" THEN simpleRenderTable(result) ELSE simpleRenderChart(result)

\* the columns a result can have: name, declared type, value in the first row
ColumnKinds ==
    { [name |-> "region", type |-> "string", value |-> Text(<<"e", "a", "s", "t">>)],
      [name |-> "total", type |-> "number", value |-> Num(12)],
      [name |-> "amount", type |-> "string", value |-> Text(<<"1", "2", ".", "3", "4", "5">>)],
      [name |-> "flag", type |-> "boolean", value |-> Bool(TRUE)],
      [name |-> "open", type |-> "number", value |-> Null],
      [name |-> "day", type |-> "date", value |-> Text(<<"J", "a", "n">>)],
      [name |-> "rank", type |-> "integer", value |-> Num(3)] }

\* a one-row result over the given columns
ResultOf(kinds) ==
    [success |-> TRUE,
     columns |-> [i \in DOMAIN kinds |-> [name |-> kinds[i].name, type |-> kinds[i].type]],
     data |-> << [n \in {kinds[i].name : i \in DOMAIN kinds} |->
                    (CHOOSE k \in {kinds[i] : i \in DOMAIN kinds} : k.name = n).value] >>]

\* the successful results shown: one column, or two different columns
Results ==
    {ResultOf(<<k>>) : k \in ColumnKinds}
      \cup UNION {{ResultOf(<<k1, k2>>) : k2 \in ColumnKinds \ {k1}} : k1 \in ColumnKinds}

\* the names, declared types and values of the cells formatted
FormatNames == {"quantity_rate", "Sales", "total_value", "item_count", "score"}
CellValues == {Null, Num(12), Text(<<"7">>), Text(<<"e", "a", "s", "t">>)}
FormatKinds ==
    { [name |-> n, type |-> t, value |-> v] :
        n \in FormatNames, t \in {"number", "string"}, v \in CellValues }

\* a result of n rows, numbered in their order
RowsResult(n) ==
    [success |-> TRUE,
     columns |-> << [name |-> "id", type |-> "number"] >>,
     data |-> [i \in 1..n |-> [id |-> Num(i)]]]

\* row counts around the page size
RowCounts == {0, 1, itemsPerPage, itemsPerPage + 1, 2 * itemsPerPage, 2 * itemsPerPage + 1}

\* the results shown as tables: one cell of every kind, and several pages
TableResults == {ResultOf(<<k>>) : k \in FormatKinds} \cup {RowsResult(n) : n \in RowCounts}

\* ChatInterface renders <QueryResult result={entry.result} /> for a bot entry
ShowResult(result) ==
    /\ panel' = [component |-> "QueryResult", result |-> result, viewMode |-> "table",
                 currentPage |-> 1, shown |-> renderChart(result, "table", 1)]
    /\ lastOp' = Op("showResult", 0, TRUE, Null)
    /\ UNCHANGED <<store, storage, inputValue, simple, mounted, inflight, nextReq, now,
                   apiCalls, download, flagForced, suggest>>

\* ChatInterface, lines 181-197: the i-th history entry is drawn; a bot entry
\* with a result gets a QueryResult of its own
ShowEntry(i) ==
    /\ mounted = "chat"
    /\ i \in DOMAIN store.queryHistory
    /\ LET entry == store.queryHistory[i]
       IN  /\ Get(entry, "type") = "bot"
           /\ "result" \in DOMAIN entry /\ entry.result # Null
           /\ panel' = [component |-> "QueryResult", result |-> entry.result,
                        viewMode |-> "table", currentPage |-> 1,
                        shown |-> IF Get(entry.result, "success") = TRUE
                                  THEN renderChart(entry.result, "table", 1)
                                  ELSE Null]
    /\ lastOp' = Op("showEntry", 0, TRUE, Null)
    /\ UNCHANGED <<store, storage, inputValue, simple, mounted, inflight, nextReq, now,
                   apiCalls, download, flagForced, suggest>>

\* QueryResult: a click on one of the four view buttons
SetViewMode(viewMode) ==
    /\ panel # Null /\ panel.component = "QueryResult" /\ panel.shown # Null
    /\ panel' = [panel EXCEPT !.viewMode = viewMode,
                              !.shown = renderChart(panel.result, viewMode, panel.currentPage)]
    /\ lastOp' = Op("setViewMode", 0, TRUE, Null)
    /\ UNCHANGED <<store, storage, inputValue, simple, mounted, inflight, nextReq, now,
                   apiCalls, download, flagForced, suggest>>

\* the page the Previous button sets: Math.max(1, currentPage - 1)
previousPage(result, currentPage) == IF currentPage - 1 > 1 THEN currentPage - 1 ELSE 1

\* the page the Next button sets: Math.min(totalPages, currentPage + 1)
nextPage(result, currentPage) == Min(totalPages(result), currentPage + 1)

\* QueryResult, lines 381-384: the pagination bar is drawn under the table
PagerShown ==
    /\ panel # Null /\ panel.component = "QueryResult"
    /\ hasData(panel.result) /\ panel.viewMode = "table" /\ totalPages(panel.result) > 1

\* QueryResult, lines 389-395: a click on Previous (disabled on page 1)
PreviousPage ==
    /\ PagerShown /\ panel.currentPage # 1
    /\ LET page == previousPage(panel.result, panel.currentPage)
       IN  panel' = [panel EXCEPT !.currentPage = page,
                                  !.shown = renderChart(panel.result, panel.viewMode, page)]
    /\ lastOp' = Op("previousPage", 0, TRUE, Null)
    /\ UNCHANGED <<store, storage, inputValue, simple, mounted, inflight, nextReq, now,
                   apiCalls, download, flagForced, suggest>>

\* QueryResult, lines 399-405: a click on Next (disabled on the last page)
NextPage ==
    /\ PagerShown /\ panel.currentPage # totalPages(panel.result)
    /\ LET page == nextPage(panel.result, panel.currentPage)
       IN  panel' = [panel EXCEPT !.currentPage = page,
                                  !.shown = renderChart(panel.result, panel.viewMode, page)]
    /\ lastOp' = Op("nextPage", 0, TRUE, Null)
    /\ UNCHANGED <<store, storage, inputValue, simple, mounted, inflight, nextReq, now,
                   apiCalls, download, flagForced, suggest>>

\* SimpleNLQInterface shows the result of a query; its viewMode is kept
SimpleShowResult(result) ==
    LET viewMode == IF panel # Null /\ panel.component = "Simple"
                    THEN panel.viewMode ELSE "table"
    IN  /\ panel' = [component |-> "Simple", result |-> result, viewMode |-> viewMode,
                     shown |-> simpleRender(result, viewMode)]
        /\ lastOp' = Op("simpleShowResult", 0, TRUE, Null)
        /\ UNCHANGED <<store, storage, inputValue, simple, mounted, inflight, nextReq, now,
                       apiCalls, download, flagForced, suggest>>

\* SimpleNLQInterface: a click on Table or Chart
SimpleSetViewMode(viewMode) ==
    /\ panel # Null /\ panel.component = "Simple"
    /\ panel' = [panel EXCEPT !.viewMode = viewMode,
                              !.shown = simpleRender(panel.result, viewMode)]
    /\ lastOp' = Op("simpleSetViewMode", 0, TRUE, Null)
    /\ UNCHANGED <<store, storage, inputValue, simple, mounted, inflight, nextReq, now,
                   apiCalls, download, flagForced, suggest>>

-----------------------------------------------------------------------------
(* QuerySuggestions: the search box and the loads *)

\* the texts typed into the search box
SearchTexts == {<<>>, <<" ">>, <<"a">>, <<"b">>}

\* line 121, onChange: a new text re-runs the effect, whose cleanup clears the
\* timer of the previous run (line 107) before the next is set (line 106)
SetSearchQuery(text) ==
    /\ mounted = "chat"
    /\ text # suggest.searchQuery
    /\ suggest.changes < MaxSearches
    /\ suggest' = [suggest EXCEPT
                     !.searchQuery = text,
                     !.timers = setTimeout(clearTimeout(@, suggest.timeoutId),
                                           suggest.scheduled, text),
                     !.timeoutId = suggest.scheduled,
                     !.scheduled = @ + 1,
                     !.changes = @ + 1]
    /\ lastOp' = Op("setSearchQuery", 0, TRUE, Null)
    /\ UNCHANGED <<store, storage, inputValue, simple, mounted, inflight, nextReq, now,
                   apiCalls, download, panel, flagForced>>

\* the delay of the pending timers passes
Elapse ==
    /\ \E timer \in suggest.timers : timer.remaining > 0
    /\ suggest' = [suggest EXCEPT
                     !.timers = {[timer EXCEPT !.remaining = 0] : timer \in suggest.timers}]
    /\ lastOp' = Op("elapse", 0, TRUE, Null)
    /\ UNCHANGED <<store, storage, inputValue, simple, mounted, inflight, nextReq, now,
                   apiCalls, download, panel, flagForced>>

\* lines 77-84: a timer runs loadSuggestions up to its await
LoadSuggestions(timer) ==
    /\ timer \in suggest.timers /\ timer.remaining = 0
    /\ IF Len(Trim(timer.text)) = 0
       THEN suggest' = [suggest EXCEPT !.timers = @ \ {timer},
                                       !.suggestions = defaultSuggestions]
       ELSE suggest' = [suggest EXCEPT !.timers = @ \ {timer},
                                       !.loading = TRUE,
                                       !.requests = @ \cup {[rid |-> suggest.issued,
                                                            q |-> timer.text]},
                                       !.issued = @ + 1]
    /\ lastOp' = Op("loadSuggestions", suggest.issued, Len(Trim(timer.text)) # 0,
                    [text |-> timer.text])
    /\ UNCHANGED <<store, storage, inputValue, simple, mounted, inflight, nextReq, now,
                   apiCalls, download, panel, flagForced>>

\* what GET /nlq/suggestions?q= can come to
SuggestionOutcomes(q) ==
    { [kind |-> "ok", data |-> [success |-> TRUE, suggestions |-> <<q \o <<"x">>>>]],
      [kind |-> "ok", data |-> [success |-> FALSE]],
      [kind |-> "noResponse"] }

\* lines 85-103: loadSuggestions after its await
loadSuggestionsSettle(c, outcome) ==
    LET listed == IF outcome.kind = "ok" /\ outcome.data.success
                     /\ "suggestions" \in DOMAIN outcome.data
                  THEN apiSuggestions(outcome.data.suggestions)
                  ELSE defaultSuggestions
    IN  [c EXCEPT !.suggestions = listed, !.loading = FALSE]

SuggestionsSettle(r, outcome) ==
    /\ r \in suggest.requests
    /\ suggest' = [loadSuggestionsSettle(suggest, outcome) EXCEPT !.requests = @ \ {r}]
    /\ lastOp' = Op("suggestionsSettle", r.rid, TRUE, outcome)
    /\ UNCHANGED <<store, storage, inputValue, simple, mounted, inflight, nextReq, now,
                   apiCalls, download, panel, flagForced>>

-----------------------------------------------------------------------------
(* Quick queries of the dashboard and the sidebar *)

setCurrentView(s, view) == Set(s, [currentView |-> view])

\* the queries offered as quick queries
QuickQueries == {<<"q">>}

\* Dashboard.handleQuickQuery (Sidebar's makes the two calls in the other order)
HandleQuickQuery(query) ==
    /\ mounted = "dashboard"
    /\ Commit(setCurrentView(setCurrentQuery(store, query), "chat"))
    /\ lastOp' = Op("quickQuery", 0, TRUE, [query |-> query])
    /\ UNCHANGED <<inputValue, simple, mounted, inflight, nextReq, now, apiCalls,
                   download, panel, suggest, flagForced>>

-----------------------------------------------------------------------------
(* Direct calls of the store's actions (useNLQActions), at any time *)

StoreCall(name, arg, s) ==
    /\ apiCalls < MaxStoreCalls
    /\ apiCalls' = apiCalls + 1
    /\ flagForced' = (flagForced \/ name \in {"setProcessing", "reset"})
    /\ Commit(s)
    /\ lastOp' = Op(name, 0, TRUE, arg)
    /\ UNCHANGED <<inputValue, simple, mounted, inflight, nextReq, now, download, panel, suggest>>

SetProcessing(b) == StoreCall("setProcessing", Null, setProcessing(store, b))

SetCurrentResult(result) ==
    StoreCall("setCurrentResult", result, setCurrentResult(store, result))

SetQueryError(error) == StoreCall("setQueryError", error, setQueryError(store, error))

ClearResult == StoreCall("clearResult", Null, clearResult(store))

AddToHistory(queryData) ==
    StoreCall("addToHistory", queryData, addToHistory(store, queryData, now))

RemoveFromHistory(id) ==
    StoreCall("removeFromHistory",
              [id |-> id,
               removed |-> Len(store.queryHistory)
                             - Len(removeFromHistory(store, id).queryHistory)],
              removeFromHistory(store, id))

Reset == StoreCall("reset", Null, reset(store))

ResetSettings == StoreCall("resetSettings", Null, resetSettings(store))

SetLanguage(language) == StoreCall("setLanguage", Null, setLanguage(store, language))

SetTheme(theme) == StoreCall("setTheme", Null, setTheme(store, theme))

SetFontSize(fontSize) == StoreCall("setFontSize", Null, setFontSize(store, fontSize))

\* arguments of the direct calls
ResultArgs == {Null, Answer(<<"a">>)}
ErrorArgs == {Null, Str("oops")}
EntryArgs ==
    { [type |-> "user", query |-> <<"b">>],
      [type |-> "error", query |-> <<"a">>, error |-> Str("oops"),
       timestamp |-> ToISOString(0)] }
IdArgs == {store.queryHistory[i].id : i \in 1..Min(2, Len(store.queryHistory))}

-----------------------------------------------------------------------------
(* Specifications *)

Init ==
    /\ store = InitialState
    /\ storage = Partialize(InitialState)
    /\ inputValue = <<>>
    /\ simple = SimpleInit
    /\ mounted = "chat"
    /\ inflight = {}
    /\ nextReq = 0
    /\ now = 0
    /\ apiCalls = 0
    /\ download = Null
    /\ panel = Null
    /\ suggest = SuggestInit
    /\ flagForced = FALSE
    /\ lastOp = Op("load", 0, TRUE, Null)

\* the chat page and the backend
NextChat ==
    \/ \E text \in Inputs : SetInputValue(text)
    \/ \E suggestion \in Suggestions : HandleSuggestionClick(suggestion)
    \/ HandleSubmit
    \/ \E r \in inflight : \E outcome \in Outcomes(r.query) : HandleSubmitResume(r, outcome)
    \/ Reload

\* the stand-alone query page and the router
NextSimple ==
    \/ \E text \in SimpleInputs : SimpleSetQuery(text)
    \/ SimpleHandleSubmit
    \/ \E r \in inflight : \E outcome \in Outcomes(r.query) : SimpleResume(r, outcome)
    \/ \E r \in inflight : OrphanResume(r)
    \/ \E to \in {"chat", "simple"} : Navigate(to)

\* the history's operations alone, on histories around the cap
NextHistory ==
    \/ \E file \in ImportFiles : ImportHistory(file)
    \/ ClearHistory
    \/ \E queryData \in EntryArgs : AddToHistory(queryData)
    \/ \E id \in IdArgs : RemoveFromHistory(id)
    \/ Reset
    \/ Reload
    \/ Tick

\* export, import and the operations that change the history in between
NextRoundTrip ==
    \/ ExportHistory
    \/ \E file \in RoundTripFiles : ImportHistory(file)
    \/ ClearHistory
    \/ \E queryData \in EntryArgs : AddToHistory(queryData)
    \/ Tick

\* the settings panel, with the store's other fields changing in between
NextSettings ==
    \/ \E partial \in ControlEdits : UpdateSettings(partial)
    \/ \E text \in MaxResultsTexts : SetMaxResults(text)
    \/ ResetSettings
    \/ Reset
    \/ \E result \in ResultArgs : SetCurrentResult(result)
    \/ ImportHistory(ArrayFile(1))
    \/ Reload

\* the settings changed in the runs that end in a reload
PersistEdits == {[chartType |-> "bar"], [enableCharts |-> FALSE]}

\* every persisted and every session-only field changing, and the page reloaded
NextPersist ==
    \/ \E suggestion \in Suggestions : HandleSuggestionClick(suggestion)
    \/ HandleSubmit
    \/ \E r \in inflight : \E outcome \in CoarseOutcomes(r.query) :
           HandleSubmitResume(r, outcome)
    \/ \E partial \in PersistEdits : UpdateSettings(partial)
    \/ SetLanguage("es")
    \/ SetTheme("dark")
    \/ SetFontSize("large")
    \/ \E health \in HealthOutcomes : HealthSettles(health)
    \/ SchemaSettles
    \/ Reload

\* the chat page against a backend that fails in every way
NextAdapter ==
    \/ \E suggestion \in Suggestions : HandleSuggestionClick(suggestion)
    \/ HandleSubmit
    \/ \E r \in inflight : \E outcome \in FailureOutcomes \cup {[kind |-> "ok", data |-> Answer(r.query)]} :
           HandleSubmitResume(r, outcome)

\* the result panels and their view buttons
NextChart ==
    \/ \E result \in Results : ShowResult(result)
    \/ \E viewMode \in {"table", "bar", "line", "pie"} : SetViewMode(viewMode)
    \/ \E result \in Results : SimpleShowResult(result)
    \/ \E viewMode \in {"table", "chart"} : SimpleSetViewMode(viewMode)

\* the tables of the two result panels, page by page
NextTable ==
    \/ \E result \in TableResults : ShowResult(result)
    \/ \E viewMode \in {"table", "bar", "line", "pie"} : SetViewMode(viewMode)
    \/ PreviousPage
    \/ NextPage
    \/ \E result \in TableResults : SimpleShowResult(result)
    \/ \E viewMode \in {"table", "chart"} : SimpleSetViewMode(viewMode)

\* the chat page with the answers it holds drawn
NextAnswer ==
    \/ \E text \in Inputs : SetInputValue(text)
    \/ \E suggestion \in Suggestions : HandleSuggestionClick(suggestion)
    \/ HandleSubmit
    \/ \E r \in inflight : \E outcome \in CoarseOutcomes(r.query) :
           HandleSubmitResume(r, outcome)
    \/ \E i \in 1..(2 * MaxRequests) : ShowEntry(i)
    \/ \E viewMode \in {"table", "bar", "line", "pie"} : SetViewMode(viewMode)

\* entries added by the chat page while the clock stands or ticks, and removed
NextIds ==
    \/ \E suggestion \in Suggestions : HandleSuggestionClick(suggestion)
    \/ HandleSubmit
    \/ \E r \in inflight : \E outcome \in CoarseOutcomes(r.query) :
           HandleSubmitResume(r, outcome)
    \/ \E queryData \in EntryArgs : AddToHistory(queryData)
    \/ \E id \in IdArgs : RemoveFromHistory(id)
    \/ Tick

\* the search box of the suggestions and the backend
NextSuggest ==
    \/ \E text \in SearchTexts : SetSearchQuery(text)
    \/ Elapse
    \/ \E timer \in suggest.timers : LoadSuggestions(timer)
    \/ \E r \in suggest.requests : \E outcome \in SuggestionOutcomes(r.q) :
           SuggestionsSettle(r, outcome)
    \/ Reload

\* the dashboard's quick queries, the router and the chat page
NextQuick ==
    \/ \E query \in QuickQueries : HandleQuickQuery(query)
    \/ \E to \in {"dashboard", "chat", "simple"} : Navigate(to)
    \/ \E text \in Inputs : SetInputValue(text)
    \/ HandleSubmit
    \/ \E r \in inflight : \E outcome \in CoarseOutcomes(r.query) :
           HandleSubmitResume(r, outcome)

\* the store's result and flag actions called directly
NextResult ==
    \/ \E b \in BOOLEAN : SetProcessing(b)
    \/ \E result \in ResultArgs : SetCurrentResult(result)
    \/ \E error \in ErrorArgs : SetQueryError(error)
    \/ ClearResult
    \/ Reset

\* the chat page, with the failures of the backend taken as one class
NextChatCoarse ==
    \/ \E text \in Inputs : SetInputValue(text)
    \/ \E suggestion \in Suggestions : HandleSuggestionClick(suggestion)
    \/ HandleSubmit
    \/ \E r \in inflight : \E outcome \in CoarseOutcomes(r.query) :
           HandleSubmitResume(r, outcome)
    \/ Reload

Next == NextChatCoarse \/ NextResult

\* the chat page with the store's actions open to any caller
Spec == Init /\ [][Next]_vars

\* the two query pages as their own handlers drive them
QuerySpec == Init /\ [][NextChat \/ NextSimple]_vars

\* the query history under its own operations
HistorySpec == Init /\ [][NextHistory]_vars

\* the settings under the panel's controls and the store's settings actions
SettingsSpec == Init /\ [][NextSettings]_vars

\* the adapter's error mapping as the chat page reports it
AdapterSpec == Init /\ [][NextAdapter]_vars

\* the result panels over one-row results of every column kind
ChartSpec == Init /\ [][NextChart]_vars

\* the tables of the result panels: cell formats and pages
TableSpec == Init /\ [][NextTable]_vars

\* the chat page from the submission to the table of the answer
AnswerSpec == Init /\ [][NextAnswer]_vars

\* the ids of the history's entries
IdSpec == Init /\ [][NextIds]_vars

\* the suggestions' search box
SuggestSpec == Init /\ [][NextSuggest]_vars

\* quick queries and the chat page
QuickSpec == Init /\ [][NextQuick]_vars

\* the store across page reloads
PersistSpec == Init /\ [][NextPersist]_vars

\* the history's export and import
RoundTripSpec == Init /\ [][NextRoundTrip]_vars

\* a pending call of the mounted page settles (success, HTTP error status,
\* transport failure or the 30 s timeout of the axios instance)
ChatCallSettles ==
    \E r \in inflight : \E outcome \in Outcomes(r.query) : HandleSubmitResume(r, outcome)

SimpleCallSettles ==
    \E r \in inflight : \E outcome \in Outcomes(r.query) : SimpleResume(r, outcome)

\* the two query pages, with every backend call eventually settling
LiveQuerySpec == QuerySpec /\ WF_vars(ChatCallSettles) /\ WF_vars(SimpleCallSettles)

\* quick queries, with every backend call of the chat page eventually settling
LiveQuickSpec == QuickSpec /\ WF_vars(ChatCallSettles)

-----------------------------------------------------------------------------
(* Properties *)

History == store.queryHistory

\* the unresolved processQuery calls started by ChatInterface.handleSubmit
ChatInFlight == {r \in inflight : r.origin = "chat"}

\* C1: a submit event that arrives while the processing flag is true is a
\* no-op: no history entry, no outbound call, and currentQuery, currentResult
\* and queryError (for SimpleNLQInterface: its local result and error) stay as
\* they were.
C1_SubmitWhileProcessingIsNoOp ==
    [][ /\ (lastOp'.op = "submit" /\ store.isProcessing) =>
              /\ ~lastOp'.accepted
              /\ store'.queryHistory = store.queryHistory
              /\ store'.currentQuery = store.currentQuery
              /\ store'.currentResult = store.currentResult
              /\ store'.queryError = store.queryError
              /\ inflight' = inflight /\ nextReq' = nextReq
        /\ (lastOp'.op = "simpleSubmit" /\ simple.isProcessing) =>
              /\ ~lastOp'.accepted
              /\ simple' = simple /\ store' = store
              /\ inflight' = inflight /\ nextReq' = nextReq ]_vars

\* C1 witness: a chat submit with a non-blank input was dropped because of the
\* flag alone, while the first call is still pending
C1_Witness ==
    /\ lastOp.op = "submit" /\ ~lastOp.accepted
    /\ store.isProcessing /\ Trim(inputValue) # <<>>
    /\ ChatInFlight # {}

\* C2 as stated: with setProcessing and reset among the interleaved steps, the
\* number of unresolved chat calls is 0 or 1, and it is 1 exactly when
\* isProcessing is true.
C2_Original ==
    /\ Cardinality(ChatInFlight) <= 1
    /\ (Cardinality(ChatInFlight) = 1) <=> store.isProcessing

\* C2 amended: as long as no direct setProcessing or reset call has been made
\* (the flag is written by handleSubmit alone), the number of unresolved chat
\* calls is 0 or 1, and it is 1 exactly when isProcessing is true.
C2_SingleFlightUnlessForced == ~flagForced => C2_Original

\* C2 witness: one call pending under a true flag that only handleSubmit set,
\* with a second submit already dropped
C2_Witness ==
    /\ ~flagForced /\ store.isProcessing /\ Cardinality(ChatInFlight) = 1
    /\ lastOp.op = "submit" /\ ~lastOp.accepted /\ Trim(inputValue) # <<>>

\* the outcome counts as a success: a 2xx answer whose success flag is set
Succeeded(outcome) == outcome.kind = "ok" /\ outcome.data.success

C4_AddPrependsAndTruncates ==
    [][ lastOp'.op = "addToHistory" =>
          LET H == store.queryHistory
              H2 == store'.queryHistory
              e == lastOp'.arg
              kept == Min(Len(H), HistoryCap - 1)
          IN  /\ Len(H2) = kept + 1
              /\ Len(H2) <= HistoryCap
              /\ DOMAIN H2[1] = DOMAIN e \cup {"id", "timestamp"}
              /\ \A k \in DOMAIN e : H2[1][k] = e[k]
              /\ "id" \notin DOMAIN e => H2[1].id = now
              /\ "timestamp" \notin DOMAIN e => H2[1].timestamp = ToISOString(now)
              /\ \A i \in 1..kept : H2[i + 1] = H[i] ]_vars

\* C4 witness: an entry was added to a full history: the new entry is first
\* and the oldest of the imported entries (id -HistoryCap) is gone
C4_Witness ==
    /\ lastOp.op = "addToHistory"
    /\ Len(History) = HistoryCap
    /\ History[1].id = now
    /\ History[2].id = 0 - 1
    /\ History[HistoryCap].id = 0 - (HistoryCap - 1)

\* C5 as stated: queryHistory has at most 100 elements in every reachable state.
C5_HistoryCapped == Len(store.queryHistory) <= HistoryCap

\* C6: in every reachable state at most one of currentResult and queryError
\* is non-null.
C6_ResultErrorExclusive == ~(store.currentResult # Null /\ store.queryError # Null)

\* C6 witness: an error was set directly after a submission had produced a
\* result (its bot entry is in the history); the result slot is empty again
C6_Witness ==
    /\ lastOp.op = "setQueryError" /\ lastOp.arg # Null
    /\ store.queryError = lastOp.arg /\ store.currentResult = Null
    /\ History # <<>> /\ History[1].type = "bot"

\* C7 as stated: immediately after any call of setCurrentResult or
\* setQueryError, whatever the argument, exactly one of currentResult and
\* queryError is non-null.
C7_Original ==
    lastOp.op \in {"setCurrentResult", "setQueryError"} =>
        (store.currentResult # Null) # (store.queryError # Null)

\* C7 amended: immediately after setCurrentResult(r) the result slot holds r
\* and the error slot is null, and after setQueryError(m) the error slot holds
\* m and the result slot is null; so exactly one slot is non-null when the
\* argument is non-null, and both are null when the argument is null.
C7_SetterFillsOneSlot ==
    /\ lastOp.op = "setCurrentResult" =>
          store.currentResult = lastOp.arg /\ store.queryError = Null
    /\ lastOp.op = "setQueryError" =>
          store.queryError = lastOp.arg /\ store.currentResult = Null

\* C7 witness: a result was set directly while the error of a failed
\* submission (its error entry is in the history) was showing
C7_Witness ==
    /\ lastOp.op = "setCurrentResult" /\ lastOp.arg # Null
    /\ store.currentResult = lastOp.arg /\ store.queryError = Null
    /\ History # <<>> /\ History[1].type = "error"

\* the first min(|H|, HistoryCap - 1) elements of H
KeptPrefix(H) == SubSeq(H, 1, Min(Len(H), HistoryCap - 1))

\* C8: an accepted chat submission of q puts one user entry for q on top of
\* the history; when its call settles, one further entry for q goes on top,
\* of type bot on success and of type error on failure, so it sits at a lower
\* index than the user entry; no other step of the query pages adds an entry.
C8_TwoEntriesPerSubmission ==
    [][ LET H == store.queryHistory
            H2 == store'.queryHistory
        IN  /\ (lastOp'.op = "submit" /\ lastOp'.accepted) =>
                  /\ H2 # <<>>
                  /\ H2[1].type = "user" /\ H2[1].query = Trim(inputValue)
                  /\ Tail(H2) = KeptPrefix(H)
            /\ lastOp'.op = "resume" =>
                  \E r \in inflight :
                      /\ r.rid = lastOp'.rid
                      /\ H2 # <<>>
                      /\ H2[1].query = r.query
                      /\ H2[1].type = IF Succeeded(lastOp'.arg) THEN "bot" ELSE "error"
                      /\ Tail(H2) = KeptPrefix(H)
            /\ ~(lastOp'.op = "submit" /\ lastOp'.accepted) /\ lastOp'.op # "resume" =>
                  H2 = H ]_vars

\* C8 witness: a completed submission has left its user entry at index 1 and
\* the bot entry for the same query at index 0 (sequence positions 2 and 1)
C8_Witness ==
    /\ lastOp.op = "resume" /\ Len(History) = 2
    /\ History[1].type = "bot" /\ History[2].type = "user"
    /\ History[1].query = History[2].query

\* the message expected for each failure of the environment: the fixed text of
\* the transport failure and of status 500, the server's text for status 503,
\* the answer's error text when success is false, or the default text
ExpectedMessage(outcome) ==
    CASE outcome.kind = "noResponse" -> Str("Network error. Please check your connection.")
      [] outcome.kind = "status" /\ outcome.status = 500 -> Str("Internal server error")
      [] outcome.kind = "status" /\ outcome.status = 503 -> outcome.data.message
      [] outcome.kind = "ok" /\ "error" \in DOMAIN outcome.data -> outcome.data.error
      [] outcome.kind = "ok" /\ "error" \notin DOMAIN outcome.data ->
             Str("Query processing failed")

\* C9: every failure of a chat submission (no response, HTTP error status, or
\* an answer whose success flag is false) ends with queryError equal to the
\* error message, currentResult null, and an error entry with that message and
\* the submitted query at index 0 of the history.
C9_FailureIsRecorded ==
    [][ (lastOp'.op = "resume" /\ ~Succeeded(lastOp'.arg)) =>
          \E r \in inflight :
              /\ r.rid = lastOp'.rid
              /\ store'.queryError = ExpectedMessage(lastOp'.arg)
              /\ store'.currentResult = Null
              /\ store'.queryHistory # <<>>
              /\ store'.queryHistory[1].type = "error"
              /\ store'.queryHistory[1].error = store'.queryError
              /\ store'.queryHistory[1].query = r.query ]_vars

\* C9 witness: an answer with success false has been recorded as an error
C9_Witness ==
    /\ lastOp.op = "resume" /\ lastOp.arg.kind = "ok" /\ ~lastOp.arg.data.success
    /\ store.queryError = Str("no such table") /\ store.currentResult = Null
    /\ History[1].type = "error" /\ History[1].error = Str("no such table")

\* C10 as stated: once a failed submission has set queryError (its error entry
\* is in the history), a step of the chat flow changes queryError away from
\* that value only when a call settles and records a new result or error; the
\* start of a new submission does not.
C10_Original ==
    [][ ( /\ store.queryError # Null
          /\ \E i \in DOMAIN store.queryHistory :
                 /\ store.queryHistory[i].type = "error"
                 /\ store.queryHistory[i].error = store.queryError
          /\ store'.queryError # store.queryError
          /\ lastOp'.op \in {"input", "suggestion", "submit", "resume"} )
        => lastOp'.op = "resume" ]_vars

\* C10 amended: queryError changes away from a non-null value only in a step
\* that records a new result or error (a settling call, setCurrentResult,
\* setQueryError) or that empties the slot: the start of an accepted
\* submission (clearResult), a direct clearResult, reset, or a page reload.
C10_ErrorClearedOnlyBy ==
    [][ (store.queryError # Null /\ store'.queryError # store.queryError) =>
          \/ lastOp'.op \in {"resume", "setCurrentResult", "setQueryError"}
          \/ /\ lastOp'.op = "submit" /\ lastOp'.accepted
             /\ store'.queryError = Null
          \/ /\ lastOp'.op \in {"clearResult", "reset", "reload"}
             /\ store'.queryError = Null ]_vars

\* C10 witness: a new submission has just been accepted on top of the error
\* entry of a failed one, and the error slot is empty
C10_Witness ==
    /\ lastOp.op = "submit" /\ lastOp.accepted
    /\ Len(History) >= 2 /\ History[2].type = "error"
    /\ store.queryError = Null

\* C11: with every backend call eventually settling, every accepted submission
\* is eventually followed by a state in which the processing flag is false
\* again (the store's flag for ChatInterface, the local flag for
\* SimpleNLQInterface), and a submit event with a non-blank text that arrives
\* while the flag is false is accepted.
C11_FlagEventuallyCleared ==
    /\ (lastOp.op = "submit" /\ lastOp.accepted) ~> ~store.isProcessing
    /\ (lastOp.op = "simpleSubmit" /\ lastOp.accepted) ~> ~simple.isProcessing
    /\ [][ /\ (lastOp'.op = "submit" /\ ~store.isProcessing /\ Trim(inputValue) # <<>>)
                => lastOp'.accepted
           /\ (lastOp'.op = "simpleSubmit" /\ ~simple.isProcessing
                 /\ Trim(simple.query) # <<>>) => lastOp'.accepted ]_vars

\* C11 witness: after a first submission failed in transport (its error entry
\* is in the history), the flag was false again and a second submission has
\* been accepted
C11_Witness ==
    /\ lastOp.op = "submit" /\ lastOp.accepted /\ lastOp.rid = 2
    /\ Len(History) = 3 /\ History[2].type = "error"
    /\ History[2].error = Str("Network error. Please check your connection.")

\* C12: no query is retried: the number of outbound calls issued grows by one
\* in the step that accepts a submission and in no other step; the step in
\* which a call settles (with success, an HTTP error status, a transport
\* failure or the timeout) only removes that call from the pending ones.
C12_OneCallPerSubmission ==
    [][ /\ nextReq' = nextReq +
               (IF lastOp'.op \in {"submit", "simpleSubmit"} /\ lastOp'.accepted
                THEN 1 ELSE 0)
        /\ lastOp'.op \in {"resume", "simpleResume"} =>
               /\ Cardinality(inflight') = Cardinality(inflight) - 1
               /\ inflight' \subseteq inflight ]_vars

\* C12 witness: the only call issued has failed in transport and nothing is
\* pending: one accepted submission, one outbound call
C12_Witness ==
    /\ lastOp.op = "resume" /\ lastOp.arg.kind = "noResponse"
    /\ nextReq = 1 /\ inflight = {}
    /\ Len(History) = 2 /\ History[1].type = "error" /\ History[2].type = "user"

\* C13: importHistory of a document that parses but whose top level is not an
\* array rejects with the format error, and of a document that does not parse
\* rejects with the parse error; in both cases queryHistory and every other
\* field of the store (and the persisted record) are as before the call.
C13_BadImportRejectedUnchanged ==
    [][ lastOp'.op = "importHistory" =>
          LET file == lastOp'.arg.file
          IN  /\ file.parse = "fail" =>
                    /\ ~lastOp'.accepted
                    /\ lastOp'.arg.message = Str("Failed to parse file")
                    /\ store' = store /\ storage' = storage
              /\ (file.parse = "ok" /\ ~file.json.isArray) =>
                    /\ ~lastOp'.accepted
                    /\ lastOp'.arg.message = Str("Invalid file format")
                    /\ store' = store /\ storage' = storage ]_vars

\* C13 witness: a document that is not an array was rejected with the format
\* error while the store held an imported history, which is still there
C13_Witness ==
    /\ lastOp.op = "importHistory" /\ ~lastOp.accepted
    /\ lastOp.arg.file.parse = "ok"
    /\ lastOp.arg.message = Str("Invalid file format")
    /\ History # <<>> /\ History = lastOp.arg.replaced

\* C14: importing the document that exportHistory produced from history H
\* makes queryHistory equal to H, element for element and in order, whatever
\* history the store holds at import time; nothing of that history is kept.
C14_ExportImportRoundTrip ==
    [][ ( /\ lastOp'.op = "importHistory"
          /\ download # Null
          /\ lastOp'.arg.file = download.document )
        => /\ lastOp'.accepted
           /\ store'.queryHistory = download.of
           /\ storage'.queryHistory = download.of ]_vars

\* C14 witness: the exported document of a non-empty history that ends with an
\* entry added by addToHistory was imported over a different, non-empty history
C14_Witness ==
    /\ lastOp.op = "importHistory" /\ lastOp.accepted
    /\ download # Null /\ lastOp.arg.file = download.document
    /\ Len(download.of) >= 2 /\ download.of[1].id >= 0
    /\ lastOp.arg.replaced # <<>> /\ lastOp.arg.replaced # download.of
    /\ History = download.of

\* C15: updateSettings(partial) changes only the settings fields named in
\* partial: those take the given values, every other settings field keeps its
\* prior value, and every store field outside settings is unchanged.
C15_UpdateSettingsFrame ==
    [][ lastOp'.op = "updateSettings" =>
          LET partial == lastOp'.arg
          IN  /\ DOMAIN store'.settings = DOMAIN store.settings \cup DOMAIN partial
              /\ \A k \in DOMAIN partial : store'.settings[k] = partial[k]
              /\ \A k \in DOMAIN store.settings \ DOMAIN partial :
                     store'.settings[k] = store.settings[k]
              /\ DOMAIN store' = DOMAIN store
              /\ \A f \in DOMAIN store \ {"settings"} : store'[f] = store[f] ]_vars

\* C15 witness: the chart type was set to bar while three other settings, the
\* history and the current result differed from their defaults; they are kept
C15_Witness ==
    /\ lastOp.op = "updateSettings" /\ lastOp.arg = [chartType |-> "bar"]
    /\ store.settings.chartType = "bar"
    /\ store.settings.maxResults = 7
    /\ ~store.settings.autoExecute /\ ~store.settings.enableCharts
    /\ History # <<>> /\ store.currentResult # Null

\* C18 as stated: in every reachable state settings.maxResults is an integer
\* in 1..10000.
C18_MaxResultsInRange == store.settings.maxResults \in 1..10000

PersistedFields == {"queryHistory", "currentLanguage", "theme", "fontSize", "settings"}

SessionFields ==
    {"isProcessing", "currentQuery", "currentResult", "queryError", "schema", "serviceHealth"}

\* C16: a page reload at any point, also while a query is in flight, yields a
\* store whose queryHistory, currentLanguage, theme, fontSize and settings are
\* those of the store just before the reload, and whose isProcessing,
\* currentQuery, currentResult, queryError, schema and serviceHealth are the
\* initial defaults; at the first load, with nothing stored, every field has
\* its default.
C16_ReloadKeepsPersistedOnly ==
    /\ [](lastOp.op = "load" => store = InitialState)
    /\ [][ lastOp'.op = "reload" =>
             /\ \A f \in PersistedFields : store'[f] = store[f]
             /\ \A f \in SessionFields : store'[f] = InitialState[f] ]_vars

\* C16 witness: the page was reloaded while a query was in flight, after the
\* chart type and one of language, theme and font size had been changed: the
\* user entry and the changed values are there, the session fields are reset
C16_Witness ==
    /\ lastOp.op = "reload" /\ lastOp.arg.pending
    /\ History # <<>> /\ History[1].type = "user"
    /\ store.settings.chartType = "bar"
    /\ (store.theme = "dark" \/ store.currentLanguage = "es" \/ store.fontSize = "large")
    /\ ~store.isProcessing /\ store.currentQuery = <<>> /\ store.serviceHealth = Null

\* the fixed message of each status that has one
FixedMessage(status) ==
    CASE status = 400 -> Str("Bad Request")
      [] status = 401 -> Str("Unauthorized access")
      [] status = 403 -> Str("Forbidden access")
      [] status = 404 -> Str("Resource not found")
      [] status = 429 -> Str("Rate limit exceeded. Please try again later.")
      [] status = 500 -> Str("Internal server error")

\* the failure of the last settled call and whether the server sent a message
LastFailure == lastOp.arg
ServerMessageSent ==
    "message" \in DOMAIN LastFailure.data /\ LastFailure.data.message # Str("")

\* C17 as stated: no response gives the network error; a status among 400,
\* 401, 403, 404, 429 and 500 gives its fixed message; any status gives the
\* server-supplied message when one is present; a failure with neither
\* response nor request gives the underlying message.
C17_Original ==
    (lastOp.op = "resume" /\ LastFailure.kind # "ok") =>
        /\ LastFailure.kind = "noResponse" =>
               store.queryError = Str("Network error. Please check your connection.")
        /\ LastFailure.kind = "status" =>
               /\ ServerMessageSent => store.queryError = LastFailure.data.message
               /\ (~ServerMessageSent /\ LastFailure.status \in FixedStatuses) =>
                      store.queryError = FixedMessage(LastFailure.status)
        /\ (LastFailure.kind = "setup" /\ "message" \in DOMAIN LastFailure) =>
               store.queryError = LastFailure.message

\* C17 amended: no response (also the 30 s timeout) gives the network error;
\* status 401, 403, 404, 429 and 500 give their fixed message whether or not
\* the server sent one; status 400 gives the server's message when it is
\* present and non-empty and "Bad Request" otherwise; any other status gives
\* the server's message when present and non-empty and "Request failed with
\* status N" otherwise; a failure with neither response nor request gives the
\* underlying message, or the default text when there is none. Every failure
\* is mapped to exactly one message.
C17_AdapterMapping ==
    (lastOp.op = "resume" /\ LastFailure.kind # "ok") =>
        /\ store.queryError # Null
        /\ LastFailure.kind = "noResponse" =>
               store.queryError = Str("Network error. Please check your connection.")
        /\ (LastFailure.kind = "status" /\ LastFailure.status \in FixedStatuses \ {400}) =>
               store.queryError = FixedMessage(LastFailure.status)
        /\ (LastFailure.kind = "status" /\ LastFailure.status = 400) =>
               store.queryError =
                   IF ServerMessageSent THEN LastFailure.data.message ELSE Str("Bad Request")
        /\ (LastFailure.kind = "status" /\ LastFailure.status \notin FixedStatuses) =>
               store.queryError =
                   IF ServerMessageSent THEN LastFailure.data.message
                   ELSE RequestFailedText(LastFailure.status)
        /\ LastFailure.kind = "setup" =>
               store.queryError =
                   IF "message" \in DOMAIN LastFailure THEN LastFailure.message
                   ELSE Str("An unexpected error occurred")

\* C17 witness: a 401 answer that carried a server message was reported with
\* the fixed message of the status
C17_Witness ==
    /\ lastOp.op = "resume" /\ LastFailure.kind = "status" /\ LastFailure.status = 401
    /\ LastFailure.data = [message |-> Str("from server")]
    /\ store.queryError = Str("Unauthorized access")

\* the columns of the result on the panel, as a set
PanelColumns == {panel.result.columns[i] : i \in DOMAIN panel.result.columns}
InSeq(col, columns) == \E i \in DOMAIN columns : columns[i] = col

\* the panel shows a chart projection of a non-empty result in which the
\* component finds no numeric column
NoNumericColumn ==
    /\ panel # Null /\ panel.result.data # <<>>
    /\ IF panel.component = "QueryResult"
       THEN panel.viewMode \in {"bar", "line", "pie"} /\ numericColumns(panel.result) = <<>>
       ELSE panel.viewMode = "chart" /\ simpleNumericColumns(panel.result) = <<>>

\* C19 as stated: for a non-empty result without a numeric column, each chart
\* projection (bar, line, pie) shows the "no numeric data available" message
\* and no chart.
C19_Original ==
    NoNumericColumn =>
        /\ panel.shown.kind = "message"
        /\ panel.shown.text \in {"No numeric data available for bar chart",
                                 "No numeric data available for line chart",
                                 "No numeric data available for pie chart",
                                 "No numeric data available for chart"}

\* C19 amended: for a non-empty result without a numeric column, the bar and
\* line projections of QueryResult and the chart of SimpleNLQInterface show
\* their "No numeric data available" message and no chart; the pie projection
\* shows "No categorical data available for pie chart" when there is no
\* categorical column either, and otherwise draws a pie in which every row
\* counts 1 under its category. Every projection yields one of these.
C19_NoNumericSignal ==
    NoNumericColumn =>
        CASE panel.component = "Simple" ->
                 panel.shown = Message("No numeric data available for chart")
          [] panel.component = "QueryResult" /\ panel.viewMode = "bar" ->
                 panel.shown = Message("No numeric data available for bar chart")
          [] panel.component = "QueryResult" /\ panel.viewMode = "line" ->
                 panel.shown = Message("No numeric data available for line chart")
          [] panel.component = "QueryResult" /\ panel.viewMode = "pie" ->
                 IF categoricalColumns(panel.result) = <<>>
                 THEN panel.shown = Message("No categorical data available for pie chart")
                 ELSE /\ panel.shown.kind = "pie"
                      /\ panel.shown.value = [each |-> 1]
                      /\ panel.shown.category = categoricalColumns(panel.result)[1].name

\* C19 witness: QueryResult shows the bar projection of a result whose columns
\* are a text and a numeric text: the message, no chart
C19_Witness ==
    /\ NoNumericColumn /\ panel.component = "QueryResult" /\ panel.viewMode = "bar"
    /\ Len(panel.result.columns) = 2
    /\ panel.result.columns[2].name = "amount"
    /\ panel.shown = Message("No numeric data available for bar chart")

\* C20 as stated: a column is classified numeric exactly when its declared
\* type is numeric or the value in the first row under its name coerces to a
\* number; every other column is categorical, so each column has exactly one
\* of the two classes (QueryResult); SimpleNLQInterface's chart uses the same
\* numeric class.
C20_Original ==
    panel # Null =>
        \A col \in PanelColumns :
            LET numeric == \/ col.type = "number"
                           \/ CoercesToNumber(FirstRowValue(panel.result, col.name))
            IN  IF panel.component = "QueryResult"
                THEN /\ InSeq(col, numericColumns(panel.result)) <=> numeric
                     /\ InSeq(col, categoricalColumns(panel.result)) <=> ~numeric
                ELSE InSeq(col, simpleNumericColumns(panel.result)) <=> numeric

-----------------------------------------------------------------------------
(* The table of a result panel *)

\* a table is on the panel
TableShown == panel # Null /\ panel.shown.kind = "table"

\* the rows and columns the table on the panel is drawn from
ShownData ==
    IF panel.component = "QueryResult"
    THEN currentData(panel.result, panel.currentPage)
    ELSE simpleDataOf(panel.result)

ShownColumns ==
    IF panel.component = "QueryResult"
    THEN ColumnsOf(panel.result)
    ELSE simpleColumnsOf(panel.result)

\* row[col.name] of the cell in row r and column c of the table
RawCell(r, c) == Get(ShownData[r], ShownColumns[c].name)

\* the positions of the cells of the table
ShownCells == {<<r, c>> : r \in DOMAIN panel.shown.rows, c \in DOMAIN ShownColumns}

\* the first rule, in the order percentage, currency, count, whose words the
\* lower-cased name contains; two decimals when none does
FirstMatchingRule(name) ==
    IF NameHasOneOf(name, PercentWords) THEN "percent"
    ELSE IF NameHasOneOf(name, CurrencyWords \cup {<<"v", "a", "l", "u", "e">>}) THEN "currency"
    ELSE IF NameHasOneOf(name, CountWords) THEN "grouped"
    ELSE "twoDecimals"

\* C21: in both panels a null or undefined cell is the dash, and a cell
\* holding a number is formatted by the first rule its column's name matches:
\* percentage (rate, percentage, conversion), then currency (amount, price,
\* revenue, sales, value), then grouped integer (count, quantity), else two
\* decimals; "quantity_rate" is a percentage.
C21_Original ==
    TableShown =>
        \A cell \in ShownCells :
            LET value == RawCell(cell[1], cell[2])
                shown == panel.shown.rows[cell[1]][cell[2]]
            IN  /\ value \in {Null, Undefined} => shown = Dash
                /\ TypeOf(value) = "number" =>
                        shown.rule = FirstMatchingRule(ShownColumns[cell[2]].name)

\* C30: every cell a panel shows is formatted by the rule the other panel's
\* formatter selects for the same column and value.
C30_Original ==
    TableShown =>
        \A cell \in ShownCells :
            LET value == RawCell(cell[1], cell[2])
                column == ShownColumns[cell[2]]
                shown == panel.shown.rows[cell[1]][cell[2]]
            IN  shown.rule = IF panel.component = "QueryResult"
                             THEN formatValue(value, column.name).rule
                             ELSE formatCellValue(value, column, panel.result).rule

\* the rows of pages first..last, one page after the other
RECURSIVE PagesFrom(_, _, _)
PagesFrom(result, first, last) ==
    IF first > last THEN <<>>
    ELSE currentData(result, first) \o PagesFrom(result, first + 1, last)

\* C27: with n rows, currentPage stays in 1..ceil(n/50) whatever Previous and
\* Next clicks are made; the table shows the rows (currentPage-1)*50 ..
\* min(currentPage*50, n)-1 in their order; the pages together are the rows,
\* each once.
C27_PagesPartitionRows ==
    (panel # Null /\ panel.component = "QueryResult" /\ hasData(panel.result)) =>
        LET data == panel.result.data
            n == Len(data)
            from == (panel.currentPage - 1) * 50
            to == Min(panel.currentPage * 50, n) - 1
        IN  /\ panel.currentPage \in 1..Ceil(n, 50)
            /\ panel.viewMode = "table" =>
                  /\ DOMAIN panel.shown.rows = 1..(to - from + 1)
                  /\ \A r \in DOMAIN panel.shown.rows :
                         panel.shown.rows[r] =
                             [c \in DOMAIN panel.result.columns |->
                                formatCellValue(Get(data[from + r], panel.result.columns[c].name),
                                                panel.result.columns[c], panel.result)]
            /\ PagesFrom(panel.result, 1, Ceil(n, 50)) = data

\* the last page, of one row, reached by Next
C27_Witness ==
    /\ panel # Null /\ panel.component = "QueryResult"
    /\ Len(DataOf(panel.result)) = 101 /\ panel.currentPage = 3
    /\ panel.viewMode = "table" /\ Len(panel.shown.rows) = 1
    /\ lastOp.op = "nextPage"

\* the rows of a response of the shape {success, result: {data, columns,
\* rowCount}, generatedSQL}
ResponseRows(response) ==
    IF "result" \in DOMAIN response /\ "data" \in DOMAIN response.result
    THEN response.result.data ELSE <<>>

\* C29: a successful response {success, result: {data, columns, rowCount},
\* generatedSQL} with at least one row, drawn by QueryResult from the history
\* entry of its submission, has data: the table view shows its rows and not
\* "No data returned".
C29_Original ==
    (/\ panel # Null /\ panel.component = "QueryResult"
     /\ Get(panel.result, "success") = TRUE
     /\ Len(ResponseRows(panel.result)) >= 1
     /\ panel.viewMode = "table")
        => /\ panel.shown # Message("No data returned")
           /\ panel.shown.kind = "table"
           /\ Len(panel.shown.rows) = Len(ResponseRows(panel.result))

\* C22: while a submission is being processed the current result and the
\* current error are both null, in the store for ChatInterface and in the
\* local state of SimpleNLQInterface: the submit step clears both and nothing
\* sets either until the call resolves.
C22_NothingShownWhileProcessing ==
    /\ store.isProcessing =>
            store.currentResult = Null /\ store.queryError = Null
    /\ simple.isProcessing =>
            simple.result = Null /\ simple.error = Null

\* a second submission on the chat page, in flight after an answered one
C22_Witness ==
    /\ store.isProcessing /\ lastOp.op = "submit" /\ lastOp.accepted
    /\ \E i \in DOMAIN store.queryHistory : store.queryHistory[i].type \in {"bot", "error"}
    /\ store.currentResult = Null /\ store.queryError = Null

\* C26: an entry's id is the clock's millisecond value at its insertion, so
\* an entry added in the millisecond of the newest one has the same id;
\* removeFromHistory(id) removes every entry with that id and keeps the others
\* in their order.
C26_IdsAreClockValues ==
    [][/\ lastOp'.op \in {"addToHistory", "resume"} \/ (lastOp'.op = "submit" /\ lastOp'.accepted)
           => /\ store'.queryHistory[1].id = now
              /\ Tail(store'.queryHistory) = store.queryHistory
       /\ lastOp'.op = "removeFromHistory"
           => LET kept(entry) == entry.id # lastOp'.arg.id
              IN  /\ store'.queryHistory = SelectSeq(store.queryHistory, kept)
                  /\ \A i \in DOMAIN store'.queryHistory :
                         store'.queryHistory[i].id # lastOp'.arg.id]_vars

\* two entries of one millisecond removed by one removeFromHistory
C26_Witness ==
    /\ lastOp.op = "removeFromHistory" /\ lastOp.arg.removed = 2
    /\ Len(store.queryHistory) >= 1

-----------------------------------------------------------------------------
(* The suggestions' search box *)

\* no debounce timer pending and no getSuggestions request in flight
Quiescent == suggest.timers = {} /\ suggest.requests = {}

\* C23: in every quiescent state with an empty search text the suggestions
\* listed are the default ones, whatever the keystrokes, timer firings and
\* responses were; a late response to an earlier search does not replace them.
C23_Original ==
    (Quiescent /\ suggest.searchQuery = <<>>) =>
        suggest.suggestions = defaultSuggestions

\* C24: the loading flag is true exactly when a getSuggestions request is in
\* flight, also when the requests of successive search texts overlap.
C24_Original == suggest.loading <=> suggest.requests # {}

\* C25: a change of the search text cancels the load scheduled before it, so
\* at most one timer is pending; a request is issued only by a timer whose
\* delay has passed, for the text the box still holds, and never for an empty
\* text.
C25_Debounced ==
    [][/\ Cardinality(suggest'.timers) <= 1
       /\ \A r \in suggest'.requests \ suggest.requests :
              /\ r.q = suggest.searchQuery /\ suggest'.searchQuery = r.q
              /\ Len(Trim(r.q)) # 0
              /\ \E timer \in suggest.timers : timer.text = r.q /\ timer.remaining = 0]_vars

\* a request issued after two changes of the text, the loads scheduled before
\* the second change never having run (nothing was listed)
C25_Witness ==
    /\ lastOp.op = "loadSuggestions" /\ lastOp.accepted
    /\ suggest.changes = 2 /\ suggest.issued = 1 /\ suggest.timers = {}
    /\ suggest.suggestions = <<>> /\ suggest.loading

\* the quick query has an answer or an error in the history
QuickQueryAnswered ==
    \E i \in DOMAIN store.queryHistory :
        /\ store.queryHistory[i].type \in {"bot", "error"}
        /\ store.queryHistory[i].query \in QuickQueries

\* C28: after handleQuickQuery(q) has set currentQuery to q and currentView to
\* chat, a /nlq/query call for q is eventually issued and its result or error
\* recorded, without the user typing q again.
C28_Original ==
    (lastOp.op = "quickQuery" /\ store.currentQuery \in QuickQueries
        /\ store.currentView = "chat") ~> QuickQueryAnswered

====
